---- MODULE Spec2Model ----
(***************************************************************************)
(* Model of the Obsidian project memory bank helper                        *)
(* (scripts/obsidian_memory.py): the persisted ConfigStore document, the   *)
(* ObsidianCLI adapter over a vault's notes, and the CLI commands built on *)
(* them.                                                                   *)
(*                                                                         *)
(* Strings are sequences of one-character strings, "" is <<>>.  A          *)
(* filesystem path is a sequence of components; str(path) is the sequence  *)
(* <<"/">> \o path, so that the empty string differs from the root.        *)
(***************************************************************************)
EXTENDS Integers, Sequences, FiniteSets, TLC

VARIABLES
    state_file,   \* the JSON state document on disk, or NoFile
    notes,        \* notes[v]: the notes of vault directory v, path -> note
    clock,        \* wall clock, in minutes
    last,         \* outcome of the last operation
    firstBind,    \* history: vault string stored by the first set_vault, or ""
    lastBind,     \* history: workspace key -> vault string of its latest bind
    ensured,      \* history: <<vault, path>> pairs ensure_note was called on
    ensuredOk,    \* history: pairs where a call outside dry-run returned normally
    okRuns,       \* history: <<vault, slug>> -> record-runs outside dry-run that exited 0
    runsBy,       \* history: <<workspace key, slug>> -> the same, by workspace
    failures      \* history: commands the obsidian program failed

vars == <<state_file, notes, clock, last, firstBind, lastBind, ensured,
          ensuredOk, okRuns, runsBy, failures>>

(***************************************************************************)
(* Bounds                                                                  *)
(***************************************************************************)
MaxDepth == 3      \* longest workspace path that is resolved
MaxCount == 3      \* cap of a run counter
MaxFreq == 2       \* largest audit frequency set
MaxLines == 2      \* lines appended to one note
MaxFailures == 1   \* commands the obsidian program fails in one behaviour

(***************************************************************************)
(* Strings                                                                 *)
(***************************************************************************)
EmptyStr == <<>>

Truthy(s) == s # EmptyStr

Whitespace == {" ", "\t", "\n"}

LowerOf(c) ==
    CASE c = "A" -> "a"
      [] c = "B" -> "b"
      [] c = "C" -> "c"
      [] c = "E" -> "e"
      [] c = "F" -> "f"
      [] c = "H" -> "h"
      [] c = "I" -> "i"
      [] c = "L" -> "l"
      [] c = "M" -> "m"
      [] c = "O" -> "o"
      [] c = "R" -> "r"
      [] OTHER -> c

\* str.lower()
Lower(s) == [i \in 1..Len(s) |-> LowerOf(s[i])]

\* [a-z0-9], over the letters and digits of the model
IsSlugChar(c) ==
    c \in {"a", "b", "c", "d", "e", "f", "h", "i", "l", "m", "o", "r", "s", "x",
           "0", "1", "2"}

\* str.lstrip(chars), str.rstrip(chars)
RECURSIVE LStrip(_, _)
LStrip(chars, s) ==
    IF s # <<>> /\ Head(s) \in chars THEN LStrip(chars, Tail(s)) ELSE s

RECURSIVE RStrip(_, _)
RStrip(chars, s) ==
    IF s # <<>> /\ s[Len(s)] \in chars THEN RStrip(chars, SubSeq(s, 1, Len(s) - 1)) ELSE s

\* str.strip()
Strip(s) == RStrip(Whitespace, LStrip(Whitespace, s))

\* re.sub(r"[^a-z0-9]+", "-", s): every maximal run of other characters
\* becomes one hyphen
RECURSIVE SubNonSlug(_, _)
SubNonSlug(s, inRun) ==
    IF s = <<>> THEN <<>>
    ELSE IF IsSlugChar(Head(s)) THEN <<Head(s)>> \o SubNonSlug(Tail(s), FALSE)
    ELSE IF inRun THEN SubNonSlug(Tail(s), TRUE)
    ELSE <<"-">> \o SubNonSlug(Tail(s), TRUE)

\* re.sub(r"-{2,}", "-", s)
RECURSIVE CollapseHyphens(_, _)
CollapseHyphens(s, inRun) ==
    IF s = <<>> THEN <<>>
    ELSE IF Head(s) # "-" THEN <<Head(s)>> \o CollapseHyphens(Tail(s), FALSE)
    ELSE IF inRun THEN CollapseHyphens(Tail(s), TRUE)
    ELSE <<"-">> \o CollapseHyphens(Tail(s), TRUE)

slugify_keeping_ends(value) ==
    LET normalized == Lower(Strip(value))
        subbed == SubNonSlug(normalized, FALSE)
    IN  CollapseHyphens(subbed, FALSE)

slugify(value) ==
    LET normalized == Lower(Strip(value))
        subbed == SubNonSlug(normalized, FALSE)
        collapsed == CollapseHyphens(subbed, FALSE)
    IN  RStrip({"-"}, LStrip({"-"}, collapsed))

\* a or b, on strings
OrElse(a, b) == IF Truthy(a) THEN a ELSE b

(***************************************************************************)
(* Paths                                                                   *)
(***************************************************************************)
\* Path.resolve() of an absolute path: ".." pops a component, "." is dropped
RECURSIVE ResolveFrom(_, _)
ResolveFrom(acc, raw) ==
    IF raw = <<>> THEN acc
    ELSE IF Head(raw) = ".." THEN
        ResolveFrom(IF acc = <<>> THEN acc ELSE SubSeq(acc, 1, Len(acc) - 1), Tail(raw))
    ELSE IF Head(raw) = "." THEN ResolveFrom(acc, Tail(raw))
    ELSE ResolveFrom(acc \o <<Head(raw)>>, Tail(raw))

Resolve(raw) == ResolveFrom(<<>>, raw)

\* str(path) of an absolute path
StrOf(path) == <<"/">> \o path

\* Path(s) of the string s
PathOf(s) == IF s # <<>> /\ Head(s) = "/" THEN Tail(s) ELSE s

normalize_workspace(path) == StrOf(Resolve(path))

\* path.parent
Parent(path) == SubSeq(path, 1, Len(path) - 1)

(***************************************************************************)
(* Directories and files outside the vault contents                        *)
(***************************************************************************)
Dirs == {<<"v1">>, <<"v2">>}     \* existing directories usable as vaults
Files == {<<"f">>}               \* an existing regular file

path_exists(raw) == Resolve(raw) \in Dirs \cup Files
is_dir(raw) == Resolve(raw) \in Dirs

\* the workspace argument None of the ConfigStore API
NoneWs == <<"<None>">>

\* Path.cwd()
Cwd == <<"a", "b">>

(***************************************************************************)
(* ConfigStore                                                             *)
(***************************************************************************)
EmptyDict == <<>>

NoFile == [exists |-> FALSE, data |-> EmptyDict]

DictGet(d, k, default) == IF k \in DOMAIN d THEN d[k] ELSE default

DictPut(d, k, v) == (k :> v) @@ d

Range(f) == {f[x] : x \in DOMAIN f}

\* ConfigStore.load: defaults for a missing file and for missing keys
load_known_keys_only(file) ==
    ("default_vault_path" :> DictGet(file.data, "default_vault_path", EmptyStr))
        @@ ("workspace_vaults" :> DictGet(file.data, "workspace_vaults", EmptyDict))

load(file) ==
    IF ~file.exists
    THEN ("default_vault_path" :> EmptyStr) @@ ("workspace_vaults" :> EmptyDict)
    ELSE LET d1 == IF "workspace_vaults" \in DOMAIN file.data
                   THEN file.data
                   ELSE DictPut(file.data, "workspace_vaults", EmptyDict)
         IN  IF "default_vault_path" \in DOMAIN d1
             THEN d1
             ELSE DictPut(d1, "default_vault_path", EmptyStr)

\* ConfigStore.save: the file then holds the whole document
save(data) == [exists |-> TRUE, data |-> data]

\* ConfigStore.set_vault: the document it saves
set_vault_overwriting_default(file, vault_path, workspace) ==
    LET data == load(file)
        normalized_vault == StrOf(Resolve(vault_path))
        d1 == IF workspace # NoneWs
              THEN DictPut(data, "workspace_vaults",
                           DictPut(data["workspace_vaults"],
                                   normalize_workspace(workspace), normalized_vault))
              ELSE data
    IN  DictPut(d1, "default_vault_path", normalized_vault)

set_vault_dropping_others(file, vault_path, workspace) ==
    LET data == load(file)
        normalized_vault == StrOf(Resolve(vault_path))
        d1 == IF workspace # NoneWs
              THEN DictPut(data, "workspace_vaults",
                           (normalize_workspace(workspace) :> normalized_vault))
              ELSE data
    IN  IF ~Truthy(DictGet(d1, "default_vault_path", EmptyStr))
        THEN DictPut(d1, "default_vault_path", normalized_vault)
        ELSE d1

set_vault(file, vault_path, workspace) ==
    LET data == load(file)
        normalized_vault == StrOf(Resolve(vault_path))
        d1 == IF workspace # NoneWs
              THEN DictPut(data, "workspace_vaults",
                           DictPut(data["workspace_vaults"],
                                   normalize_workspace(workspace), normalized_vault))
              ELSE data
    IN  IF ~Truthy(DictGet(d1, "default_vault_path", EmptyStr))
        THEN DictPut(d1, "default_vault_path", normalized_vault)
        ELSE d1

\* the loop of resolve_vault over [current, *current.parents]: the value of
\* the first candidate that is a key, or "" when none is
RECURSIVE first_bound_farthest(_, _)
first_bound_farthest(workspace_map, current) ==
    LET up == IF current = <<>> THEN EmptyStr
              ELSE first_bound_farthest(workspace_map, Parent(current))
    IN  IF Truthy(up) THEN up
        ELSE IF StrOf(current) \in DOMAIN workspace_map
        THEN workspace_map[StrOf(current)]
        ELSE EmptyStr

RECURSIVE first_bound(_, _)
first_bound(workspace_map, current) ==
    IF StrOf(current) \in DOMAIN workspace_map THEN workspace_map[StrOf(current)]
    ELSE IF current = <<>> THEN EmptyStr
    ELSE first_bound(workspace_map, Parent(current))

\* whether the loop of resolve_vault returns
some_bound(workspace_map, current) ==
    \E n \in 0..Len(current) : StrOf(SubSeq(current, 1, n)) \in DOMAIN workspace_map

resolve_vault_ignoring_default(file, workspace) ==
    LET data == load(file)
        workspace_map == DictGet(data, "workspace_vaults", EmptyDict)
    IN  IF workspace # NoneWs /\ some_bound(workspace_map, Resolve(workspace))
        THEN first_bound(workspace_map, Resolve(workspace))
        ELSE EmptyStr

\* ConfigStore.resolve_vault
resolve_vault(file, workspace) ==
    LET data == load(file)
        workspace_map == DictGet(data, "workspace_vaults", EmptyDict)
    IN  IF workspace # NoneWs /\ some_bound(workspace_map, Resolve(workspace))
        THEN first_bound(workspace_map, Resolve(workspace))
        ELSE DictGet(data, "default_vault_path", EmptyStr)

\* ensure_vault_ready: "" when the path is a directory, else the error
ensure_vault_ready_existing_only(vault_path) ==
    IF ~path_exists(vault_path) THEN "InvalidVaultPath:missing" ELSE "ok"

ensure_vault_ready(vault_path) ==
    IF ~path_exists(vault_path) THEN "InvalidVaultPath:missing"
    ELSE IF ~is_dir(vault_path) THEN "InvalidVaultPath:not-a-directory"
    ELSE "ok"

\* workspace argument of a command: the --workspace value, else Path.cwd()
NoArg == <<"<absent>">>
workspace_of(workspace_arg) == IF workspace_arg # NoArg THEN workspace_arg ELSE Cwd

\* resolve_vault_or_exit: the vault path, or the error it exits with
resolve_vault_or_exit_guessing(file, workspace_arg) ==
    LET vault == resolve_vault(file, workspace_of(workspace_arg))
    IN  IF ~Truthy(vault)
        THEN [error |-> "ok", vault_path |-> <<"v1">>]
        ELSE [error |-> ensure_vault_ready(PathOf(vault)), vault_path |-> PathOf(vault)]

resolve_vault_or_exit(file, workspace_arg) ==
    LET vault == resolve_vault(file, workspace_of(workspace_arg))
    IN  IF ~Truthy(vault)
        THEN [error |-> "NoVaultConfigured", vault_path |-> <<>>]
        ELSE [error |-> ensure_vault_ready(PathOf(vault)), vault_path |-> PathOf(vault)]

(***************************************************************************)
(* ObsidianCLI: one adapter object during one command.                     *)
(*   fs      the notes of the vault directory, path -> note                *)
(*   issued  the commands handed to the obsidian program                   *)
(*   failAt  which of them the program fails (exit status # 0), 0 = none   *)
(*   raised  a RuntimeError is propagating: later calls are not reached    *)
(*   out     what the last call returned                                   *)
(***************************************************************************)
NewCLI(vault_fs, dry_run, failAt) ==
    [fs |-> vault_fs, dry_run |-> dry_run, failAt |-> failAt,
     issued |-> <<>>, raised |-> FALSE, out |-> "none"]

Command(command, path, content) ==
    [command |-> command, path |-> path, content |-> content]

NoPath == <<>>
NoContent == [type |-> "none"]

NewNote(content) == [text |-> content, appended |-> <<>>]

\* exit status of the obsidian program for one command
program_fails(cli, cmd) ==
    \/ Len(cli.issued) + 1 = cli.failAt
    \/ cmd.command = "create" /\ cmd.path \in DOMAIN cli.fs
    \/ cmd.command \in {"append", "read"} /\ cmd.path \notin DOMAIN cli.fs

\* what the obsidian program does to the vault when it succeeds
program_effect(fs, cmd) ==
    CASE cmd.command = "create" -> DictPut(fs, cmd.path, NewNote(cmd.content))
      [] cmd.command = "append" ->
            [fs EXCEPT ![cmd.path].appended = Append(@, cmd.content)]
      [] OTHER -> fs

\* ObsidianCLI.run
run_ignoring_dry_run(cli, cmd) ==
    IF cli.raised THEN cli
    ELSE IF program_fails(cli, cmd)
    THEN [cli EXCEPT !.issued = Append(@, cmd), !.raised = TRUE, !.out = "RuntimeError"]
    ELSE [cli EXCEPT !.issued = Append(@, cmd), !.fs = program_effect(@, cmd),
                     !.out = "ok"]

run(cli, cmd) ==
    IF cli.raised THEN cli
    ELSE IF cli.dry_run THEN [cli EXCEPT !.out = "dry-run"]
    ELSE IF program_fails(cli, cmd)
    THEN [cli EXCEPT !.issued = Append(@, cmd), !.raised = TRUE, !.out = "RuntimeError"]
    ELSE [cli EXCEPT !.issued = Append(@, cmd), !.fs = program_effect(@, cmd),
                     !.out = "ok"]

\* ObsidianCLI.ensure_note
ensure_note_without_check(cli, relative_path, content) ==
    IF cli.raised THEN cli
    ELSE IF relative_path \in DOMAIN cli.fs /\ ~cli.dry_run
    THEN LET cmd == Command("create", relative_path, content)
         IN  [cli EXCEPT !.issued = Append(@, cmd),
                         !.fs = DictPut(@, relative_path, NewNote(content)),
                         !.out = "ok"]
    ELSE run(cli, Command("create", relative_path, content))

ensure_note_updating(cli, relative_path, content) ==
    IF cli.raised THEN cli
    ELSE IF relative_path \in DOMAIN cli.fs
    THEN IF cli.fs[relative_path].text = content \/ cli.dry_run
         THEN [cli EXCEPT !.out = "exists"]
         ELSE [cli EXCEPT !.issued = Append(@, Command("create", relative_path, content)),
                          !.fs[relative_path].text = content, !.out = "ok"]
    ELSE run(cli, Command("create", relative_path, content))

ensure_note(cli, relative_path, content) ==
    IF cli.raised THEN cli
    ELSE IF relative_path \in DOMAIN cli.fs THEN [cli EXCEPT !.out = "exists"]
    ELSE run(cli, Command("create", relative_path, content))

\* ObsidianCLI.append
append(cli, relative_path, content) ==
    run(cli, Command("append", relative_path, content))

\* ObsidianCLI.read
read(cli, relative_path) == run(cli, Command("read", relative_path, NoContent))

(***************************************************************************)
(* Note paths and note contents                                            *)
(***************************************************************************)
PROJECT_ROOT == <<"Project Memory">>

Ext(name) == name \o <<".md">>

\* Path.stem of a note path
Stem(path) ==
    LET name == path[Len(path)]
    IN  IF name # <<>> /\ name[Len(name)] = ".md" THEN SubSeq(name, 1, Len(name) - 1)
        ELSE name

build_note_paths(project_name) ==
    LET project_slug == OrElse(slugify(project_name), <<"project">>)
        project_dir == <<PROJECT_ROOT, project_slug>>
        named == Strip(Strip(project_name) \o <<" ", "Home">>)
        project_home_name == IF named = <<"Home">> THEN <<"Project", " ", "Home">> ELSE named
    IN  [project_slug |-> project_slug,
         project_dir |-> project_dir,
         home |-> project_dir \o <<Ext(project_home_name)>>,
         moc |-> project_dir \o <<Ext(<<"MOC">>)>>,
         run_log |-> project_dir \o <<Ext(<<"Run Log">>)>>,
         decisions |-> project_dir \o <<Ext(<<"Decisions">>)>>,
         questions |-> project_dir \o <<Ext(<<"Open Questions">>)>>,
         runs_dir |-> project_dir \o << <<"Runs">> >>]

\* build_frontmatter with the body of one seed note: the note type, the
\* project, the time of now_iso() and the note it links back to
SeedContent(note_type, project_name, now, paths) ==
    [type |-> note_type, project |-> project_name, created |-> now,
     slug |-> paths.project_slug, home |-> Stem(paths.home)]

\* build_seed_notes: the items of the dict, in insertion order
build_seed_notes(project_name, paths, now) ==
    << <<paths.home, SeedContent("project-home", project_name, now, paths)>>,
       <<paths.moc, SeedContent("moc", project_name, now, paths)>>,
       <<paths.run_log, SeedContent("run-log", project_name, now, paths)>>,
       <<paths.decisions, SeedContent("decisions", project_name, now, paths)>>,
       <<paths.questions, SeedContent("open-questions", project_name, now, paths)>> >>

Digit(n) == <<"0", "1", "2", "3", "4", "5", "6", "7", "8", "9">>[n + 1]

Pad2(n) == <<Digit((n \div 10) % 10), Digit(n % 10)>>

\* datetime.now().strftime("%Y-%m-%d-%H%M") at minute `now` of the day
strftime_minute(now) == <<"2026-11-02-">> \o Pad2(now \div 60) \o Pad2(now % 60)

\* an optional argument that was given and is not empty
NoArgGiven(a) == a = NoArg
Given(a) == ~NoArgGiven(a) /\ Truthy(a)

\* the for loop over notes.items() calling cli.ensure_note
RECURSIVE ensure_all_best_effort(_, _)
ensure_all_best_effort(cli, items) ==
    IF items = <<>> THEN cli
    ELSE ensure_all_best_effort(
            [ensure_note(cli, items[1][1], items[1][2]) EXCEPT !.raised = FALSE],
            Tail(items))

RECURSIVE ensure_all(_, _)
ensure_all(cli, items) ==
    IF items = <<>> THEN cli
    ELSE ensure_all(ensure_note(cli, items[1][1], items[1][2]), Tail(items))

\* the path of the run note of cmd_record_run
run_note_path_of(paths, title, now) ==
    paths.runs_dir \o
        <<Ext(strftime_minute(now) \o <<"-">> \o OrElse(slugify(title), <<"run">>))>>

\* the run note of cmd_record_run
RunContent(project, paths, args, now) ==
    [type |-> "run", project |-> project, created |-> now,
     slug |-> paths.project_slug, home |-> Stem(paths.home),
     title |-> Strip(args.title), summary |-> Strip(args.summary),
     decisions |-> IF Given(args.decisions) THEN Strip(args.decisions) ELSE <<"None.">>,
     questions |-> IF Given(args.questions) THEN Strip(args.questions) ELSE <<"None.">>]

IndexLine(run_note_path, text) == [ref |-> Stem(run_note_path), text |-> Strip(text)]

\* cmd_bootstrap after the vault is resolved: the adapter when it returns
bootstrap_body_overwriting(cli, args, now) ==
    LET project == Strip(args.project)
        items == build_seed_notes(project, build_note_paths(project), now)
        c1 == ensure_note_without_check(cli, items[1][1], items[1][2])
        c2 == ensure_note_without_check(c1, items[2][1], items[2][2])
        c3 == ensure_note_without_check(c2, items[3][1], items[3][2])
        c4 == ensure_note_without_check(c3, items[4][1], items[4][2])
    IN  ensure_note_without_check(c4, items[5][1], items[5][2])

bootstrap_body(cli, args, now) ==
    LET project == Strip(args.project)
        paths == build_note_paths(project)
    IN  ensure_all(cli, build_seed_notes(project, paths, now))

\* cmd_record_run after the vault is resolved: the adapter when it returns
record_run_body_logging_new_notes(cli, args, now) ==
    LET project == Strip(args.project)
        paths == build_note_paths(project)
        seeded == ensure_all(cli, build_seed_notes(project, paths, now))
        run_note_path == run_note_path_of(paths, args.title, now)
        noted == ensure_note(seeded, run_note_path, RunContent(project, paths, args, now))
        logged == IF noted.out = "exists" THEN noted
                  ELSE append(noted, paths.run_log, IndexLine(run_note_path, args.summary))
        decided == IF Given(args.decisions)
                   THEN append(logged, paths.decisions,
                               IndexLine(run_note_path, args.decisions))
                   ELSE logged
    IN  IF Given(args.questions)
        THEN append(decided, paths.questions, IndexLine(run_note_path, args.questions))
        ELSE decided

record_run_body_rolling_back(cli, args, now) ==
    LET project == Strip(args.project)
        paths == build_note_paths(project)
        seeded == ensure_all(cli, build_seed_notes(project, paths, now))
        run_note_path == run_note_path_of(paths, args.title, now)
        noted == ensure_note(seeded, run_note_path, RunContent(project, paths, args, now))
        logged == append(noted, paths.run_log, IndexLine(run_note_path, args.summary))
        decided == IF Given(args.decisions)
                   THEN append(logged, paths.decisions,
                               IndexLine(run_note_path, args.decisions))
                   ELSE logged
        asked == IF Given(args.questions)
                 THEN append(decided, paths.questions,
                             IndexLine(run_note_path, args.questions))
                 ELSE decided
    IN  IF asked.raised /\ ~noted.raised
        THEN [asked EXCEPT !.fs = [path \in DOMAIN asked.fs \ {run_note_path}
                                    |-> asked.fs[path]]]
        ELSE asked

record_run_body_logging_first(cli, args, now) ==
    LET project == Strip(args.project)
        paths == build_note_paths(project)
        seeded == ensure_all(cli, build_seed_notes(project, paths, now))
        run_note_path == run_note_path_of(paths, args.title, now)
        logged == append(seeded, paths.run_log, IndexLine(run_note_path, args.summary))
        noted == ensure_note(logged, run_note_path, RunContent(project, paths, args, now))
        decided == IF Given(args.decisions)
                   THEN append(noted, paths.decisions,
                               IndexLine(run_note_path, args.decisions))
                   ELSE noted
    IN  IF Given(args.questions)
        THEN append(decided, paths.questions, IndexLine(run_note_path, args.questions))
        ELSE decided

record_run_body(cli, args, now) ==
    LET project == Strip(args.project)
        paths == build_note_paths(project)
        seeded == ensure_all(cli, build_seed_notes(project, paths, now))
        run_note_path == run_note_path_of(paths, args.title, now)
        noted == ensure_note(seeded, run_note_path, RunContent(project, paths, args, now))
        logged == append(noted, paths.run_log, IndexLine(run_note_path, args.summary))
        decided == IF Given(args.decisions)
                   THEN append(logged, paths.decisions,
                               IndexLine(run_note_path, args.decisions))
                   ELSE logged
    IN  IF Given(args.questions)
        THEN append(decided, paths.questions, IndexLine(run_note_path, args.questions))
        ELSE decided

\* the checks of cmd_audit, in order
audit_checks_backlinks_first(paths) ==
    <<Command("backlinks", paths.home, NoContent), Command("unresolved", NoPath, NoContent),
      Command("orphans", NoPath, NoContent), Command("deadends", NoPath, NoContent)>>

audit_checks(paths) ==
    <<Command("unresolved", NoPath, NoContent), Command("orphans", NoPath, NoContent),
      Command("deadends", NoPath, NoContent), Command("backlinks", paths.home, NoContent)>>

RECURSIVE run_all(_, _)
run_all(cli, cmds) ==
    IF cmds = <<>> THEN cli ELSE run_all(run(cli, Head(cmds)), Tail(cmds))

\* cmd_audit after the vault is resolved
audit_body(cli, args) == run_all(cli, audit_checks(build_note_paths(Strip(args.project))))

\* cmd_search after the vault is resolved
search_body(cli, args) ==
    run(cli, Command("search", <<PROJECT_ROOT, slugify(args.project)>>, NoContent))

(***************************************************************************)
(* Inputs                                                                  *)
(***************************************************************************)
Names == {"a", "b"}

RECURSIVE PathsUpTo(_)
PathsUpTo(n) ==
    IF n = 0 THEN {<<>>}
    ELSE LET shorter == PathsUpTo(n - 1)
         IN  shorter \cup {p \o <<c>> : p \in {q \in shorter : Len(q) = n - 1}, c \in Names}

\* raw paths that resolve() changes
DottedPaths == {<<"a", "..", "b">>, <<"a", ".", "b">>, <<"a", "b", "..">>}

\* workspaces that get bound: the root, a directory, its child and a sibling
BindWsArgs == {<<>>, <<"a">>, <<"a", "b">>, <<"b">>} \cup DottedPaths
ResolveWsArgs == PathsUpTo(MaxDepth) \cup DottedPaths
StoreVaultArgs == {<<"v1">>, <<"v2">>, <<"v1", "..", "v2">>}
CmdWsArgs == {NoArg, <<"a">>}
CmdVaultArgs == {<<"v1">>, <<"f">>, <<"nx">>}

(***************************************************************************)
(* State after installation: no state file, empty vault directories       *)
(***************************************************************************)
NoLast == [op |-> "none"]

Init ==
    /\ state_file = NoFile
    /\ notes = [v \in Dirs |-> EmptyDict]
    /\ clock = 0
    /\ last = NoLast
    /\ firstBind = EmptyStr
    /\ lastBind = EmptyDict
    /\ ensured = {}
    /\ ensuredOk = {}
    /\ okRuns = EmptyDict
    /\ runsBy = EmptyDict
    /\ failures = 0

\* the history of binds, kept beside every store.set_vault call
BindHistory(vault_path, workspace) ==
    /\ firstBind' = IF firstBind = EmptyStr THEN StrOf(Resolve(vault_path)) ELSE firstBind
    /\ lastBind' = IF workspace # NoneWs
                   THEN DictPut(lastBind, StrOf(Resolve(workspace)), StrOf(Resolve(vault_path)))
                   ELSE lastBind

(***************************************************************************)
(* The commands that only use the ConfigStore                              *)
(***************************************************************************)
\* cmd_set_vault
cmd_set_vault_step(vault_arg, workspace_arg) ==
    LET ready == ensure_vault_ready(vault_arg)
        workspace == workspace_of(workspace_arg)
    IN  /\ last' = [op |-> "set-vault", exit |-> IF ready = "ok" THEN 0 ELSE 1,
                    error |-> ready, ws |-> workspace, vault |-> vault_arg]
        /\ IF ready = "ok"
           THEN /\ state_file' = save(set_vault(state_file, vault_arg, workspace))
                /\ BindHistory(vault_arg, workspace)
           ELSE UNCHANGED <<state_file, firstBind, lastBind>>
        /\ UNCHANGED <<notes, clock, ensured, ensuredOk, okRuns, runsBy, failures>>

\* cmd_show_vault
cmd_show_vault_step_binding(workspace_arg) ==
    LET r == resolve_vault_or_exit(state_file, workspace_arg)
    IN  /\ last' = [op |-> "show-vault", ws |-> workspace_of(workspace_arg),
                    error |-> r.error, vault_path |-> r.vault_path,
                    exit |-> IF r.error = "ok" THEN 0 ELSE 1]
        /\ state_file' = IF r.error = "ok"
                         THEN save(set_vault(state_file, r.vault_path,
                                             workspace_of(workspace_arg)))
                         ELSE state_file
        /\ UNCHANGED <<notes, clock, firstBind, lastBind, ensured,
                       ensuredOk, okRuns, runsBy, failures>>

cmd_show_vault_step(workspace_arg) ==
    LET r == resolve_vault_or_exit(state_file, workspace_arg)
    IN  /\ last' = [op |-> "show-vault", ws |-> workspace_of(workspace_arg),
                    error |-> r.error, vault_path |-> r.vault_path,
                    exit |-> IF r.error = "ok" THEN 0 ELSE 1]
        /\ UNCHANGED <<state_file, notes, clock, firstBind, lastBind, ensured,
                       ensuredOk, okRuns, runsBy, failures>>

(***************************************************************************)
(* ConfigStore-level model: the methods of one ConfigStore called          *)
(* directly, and the two commands that only use the store                  *)
(***************************************************************************)
StoreSetVault ==
    \E vault_path \in StoreVaultArgs, workspace \in BindWsArgs \cup {NoneWs} :
        /\ state_file' = save(set_vault(state_file, vault_path, workspace))
        /\ BindHistory(vault_path, workspace)
        /\ last' = [op |-> "set_vault", ws |-> workspace, vault |-> vault_path]
        /\ UNCHANGED <<notes, clock, ensured, ensuredOk, okRuns, runsBy, failures>>

StoreResolveVault ==
    \E workspace \in ResolveWsArgs \cup {NoneWs} :
        /\ last' = [op |-> "resolve_vault", ws |-> workspace,
                    result |-> resolve_vault(state_file, workspace)]
        /\ UNCHANGED <<state_file, notes, clock, firstBind, lastBind, ensured,
                       ensuredOk, okRuns, runsBy, failures>>

StoreCmdSetVault ==
    \E vault_arg \in CmdVaultArgs, workspace_arg \in CmdWsArgs :
        cmd_set_vault_step(vault_arg, workspace_arg)

StoreShowVault ==
    \E workspace_arg \in ResolveWsArgs \cup {NoArg} : cmd_show_vault_step(workspace_arg)

NextStore == StoreSetVault \/ StoreResolveVault \/ StoreCmdSetVault \/ StoreShowVault

SpecStore == Init /\ [][NextStore]_vars

(***************************************************************************)
(* Claims on vault resolution and bindings                                 *)
(***************************************************************************)
SetMax(S) == CHOOSE n \in S : \A m \in S : m <= n

\* lengths of the prefixes of the resolved workspace that were ever bound
BoundDepths(workspace) ==
    LET current == Resolve(workspace)
    IN  {n \in 0..Len(current) : StrOf(SubSeq(current, 1, n)) \in DOMAIN lastBind}

DefaultVault == DictGet(load(state_file), "default_vault_path", EmptyStr)

\* C1: resolve_vault(W) returns the vault bound to the deepest path among W
\* and its ancestors that has a binding, whatever the order of the binds.
C1_DeepestBindingWins ==
    (last.op = "resolve_vault" /\ last.ws # NoneWs /\ BoundDepths(last.ws) # {}) =>
        LET current == Resolve(last.ws)
            deepest == SubSeq(current, 1, SetMax(BoundDepths(last.ws)))
        IN  last.result = lastBind[StrOf(deepest)]

\* /a and /a/b are bound to different vaults and /a/b/<child> was resolved
C1_Witness ==
    /\ last.op = "resolve_vault"
    /\ last.ws = <<"a", "b", "a">>
    /\ {<<"/", "a">>, <<"/", "a", "b">>} \subseteq DOMAIN lastBind
    /\ lastBind[<<"/", "a">>] # lastBind[<<"/", "a", "b">>]
    /\ last.result = lastBind[<<"/", "a", "b">>]

\* C2: with no binding on the workspace or an ancestor, resolution returns
\* the default vault; with no default either, resolve_vault_or_exit fails
\* with NoVaultConfigured and a non-zero exit instead of returning a vault.
C2_DefaultThenNoVaultConfigured ==
    /\ (last.op = "resolve_vault" /\ (last.ws = NoneWs \/ BoundDepths(last.ws) = {})) =>
            last.result = DefaultVault
    /\ (last.op = "show-vault" /\ BoundDepths(last.ws) = {}) =>
            IF DefaultVault = EmptyStr
            THEN last.error = "NoVaultConfigured" /\ last.exit # 0
            ELSE is_dir(PathOf(DefaultVault)) =>
                    last.exit = 0 /\ last.vault_path = PathOf(DefaultVault)

\* a workspace outside every binding was resolved to the default vault
C2_Witness ==
    /\ last.op = "show-vault"
    /\ DOMAIN lastBind # {}
    /\ BoundDepths(last.ws) = {}
    /\ last.exit = 0
    /\ last.vault_path = PathOf(DefaultVault)

\* the unconfigured case: show-vault exits with NoVaultConfigured
C2_WitnessUnconfigured ==
    last.op = "show-vault" /\ DefaultVault = EmptyStr /\ last.exit # 0

\* C3: after any sequence of binds the default vault is the vault of the
\* first successful bind; later binds, of that or of other workspaces, and
\* binds refused for an invalid path, never change it.
C3_DefaultIsFirstBind == DefaultVault = firstBind

\* a bind of another vault succeeded after the first and the default stayed
C3_Witness ==
    /\ last.op \in {"set_vault", "set-vault"}
    /\ firstBind # EmptyStr
    /\ StrOf(Resolve(last.vault)) # firstBind
    /\ StrOf(Resolve(last.ws)) \in DOMAIN lastBind
    /\ lastBind[StrOf(Resolve(last.ws))] = StrOf(Resolve(last.vault))
    /\ DefaultVault = firstBind

\* C4: after any sequence of set_vault calls every workspace ever bound is
\* still bound, to the vault of its most recent bind; a bind changes no
\* other workspace's binding.
C4_BindingsKept ==
    LET workspace_map == DictGet(load(state_file), "workspace_vaults", EmptyDict)
    IN  /\ DOMAIN workspace_map = DOMAIN lastBind
        /\ \A key \in DOMAIN lastBind : workspace_map[key] = lastBind[key]

\* three workspaces are bound, not all to one vault, after a further bind
C4_Witness ==
    /\ last.op = "set_vault"
    /\ Cardinality(DOMAIN lastBind) >= 3
    /\ \E k1, k2 \in DOMAIN lastBind : lastBind[k1] # lastBind[k2]

(***************************************************************************)
(* Adapter-level model: the methods of an ObsidianCLI on one vault called  *)
(* directly                                                                *)
(***************************************************************************)
ApiVault == <<"v1">>
ApiPaths == {<< <<"n", "1">> >>, << <<"d">>, <<"n", "2">> >>}
ApiContents == {[type |-> "text", body |-> "x"], [type |-> "text", body |-> "y"]}

\* the note at a path, as a sequence of at most one note
NoteAt(fs, path) == IF path \in DOMAIN fs THEN <<fs[path]>> ELSE <<>>

VaultEnsureNote ==
    \E path \in ApiPaths, content \in ApiContents, dry_run \in BOOLEAN, failAt \in 0..1 :
        LET cli == ensure_note(NewCLI(notes[ApiVault], dry_run, failAt), path, content)
        IN  /\ notes' = [notes EXCEPT ![ApiVault] = cli.fs]
            /\ last' = [op |-> "ensure_note", path |-> path, content |-> content,
                        dry_run |-> dry_run, out |-> cli.out, issued |-> cli.issued,
                        before |-> NoteAt(notes[ApiVault], path),
                        again |-> <<ApiVault, path>> \in ensured,
                        againOk |-> <<ApiVault, path>> \in ensuredOk]
            /\ ensured' = ensured \cup {<<ApiVault, path>>}
            /\ ensuredOk' = IF ~dry_run /\ ~cli.raised
                            THEN ensuredOk \cup {<<ApiVault, path>>}
                            ELSE ensuredOk
            /\ UNCHANGED <<state_file, clock, firstBind, lastBind, okRuns, runsBy, failures>>

VaultAppend ==
    \E path \in ApiPaths, content \in ApiContents, dry_run \in BOOLEAN, failAt \in 0..1 :
        LET cli == append(NewCLI(notes[ApiVault], dry_run, failAt), path, content)
        IN  /\ \A note \in Range(NoteAt(notes[ApiVault], path)) :
                    Len(note.appended) < MaxLines
            /\ notes' = [notes EXCEPT ![ApiVault] = cli.fs]
            /\ last' = [op |-> "append", path |-> path, content |-> content,
                        dry_run |-> dry_run, out |-> cli.out, issued |-> cli.issued]
            /\ UNCHANGED <<state_file, clock, firstBind, lastBind, ensured, ensuredOk, okRuns, runsBy, failures>>

VaultRead ==
    \E path \in ApiPaths, dry_run \in BOOLEAN, failAt \in 0..1 :
        LET cli == read(NewCLI(notes[ApiVault], dry_run, failAt), path)
        IN  /\ notes' = [notes EXCEPT ![ApiVault] = cli.fs]
            /\ last' = [op |-> "read", path |-> path, dry_run |-> dry_run,
                        out |-> cli.out, issued |-> cli.issued]
            /\ UNCHANGED <<state_file, clock, firstBind, lastBind, ensured, ensuredOk, okRuns, runsBy, failures>>

NextVault == VaultEnsureNote \/ VaultAppend \/ VaultRead

SpecVault == Init /\ [][NextVault]_vars

(***************************************************************************)
(* Claims on ensure_note                                                   *)
(***************************************************************************)
\* C5 as stated: a second ensure_note call on a path reports that the note
\* exists, issues no create command and leaves the content as the first
\* call left it.
C5_SecondCallReportsExists ==
    (last.op = "ensure_note" /\ last.again) =>
        /\ last.out = "exists"
        /\ last.issued = <<>>
        /\ NoteAt(notes[ApiVault], last.path) = last.before

\* C5 amended: an ensure_note call on a path where a note exists reports
\* exists, issues no command and leaves the note as it was, whatever its
\* content argument; the note exists once a call on the path outside
\* dry-run has returned normally (a dry-run call creates nothing).
C5_EnsureNeverOverwrites ==
    last.op = "ensure_note" =>
        /\ last.againOk => last.before # <<>>
        /\ last.before # <<>> =>
                /\ last.out = "exists"
                /\ last.issued = <<>>
                /\ NoteAt(notes[ApiVault], last.path) = last.before

\* a repeated call with content other than the note's, which was kept
C5_Witness ==
    /\ last.op = "ensure_note"
    /\ last.againOk
    /\ ~last.dry_run
    /\ last.path \in DOMAIN notes[ApiVault]
    /\ notes[ApiVault][last.path].text # last.content
    /\ last.out = "exists"

(***************************************************************************)
(* Command-level model: the subcommands of obsidian_memory.py, one         *)
(* invocation per step                                                     *)
(***************************************************************************)
ProjectArgs == {<<"A", "b">>}
TitleArgs == {<<"F", "i", "x", "!">>}
Minutes == {0, 1}                \* the minutes at which commands run
OptionalArgs == {<<NoArg, NoArg>>, <<<<"x">>, <<"x">>>>}

\* a command handed to the program, without the content argument
Issued(cmd) == [command |-> cmd.command, path |-> cmd.path]

\* what a command that uses the vault leaves in `last`
Outcome(op, r, cli, args, dry_run) ==
    [op |-> op,
     exit |-> IF r.error # "ok" \/ cli.raised THEN 1 ELSE 0,
     error |-> IF r.error # "ok" THEN r.error
               ELSE IF cli.raised THEN "RuntimeError" ELSE "ok",
     vault |-> r.vault_path,
     dry_run |-> dry_run,
     args |-> args,
     issued |-> [i \in 1..Len(cli.issued) |-> Issued(cli.issued[i])],
     failAt |-> cli.failAt]

\* the adapter of a command once the vault is resolved
Adapter(r, dry_run, failAt) == NewCLI(notes[r.vault_path], dry_run, failAt)

\* the adapter of a command that exited before it made one
NoAdapter == NewCLI(EmptyDict, FALSE, 0)

\* the calls a command body makes to the program when none fails: the
\* program can fail any one of them
FailPoints(unfailed) ==
    IF failures < MaxFailures THEN 0..Len(unfailed.issued) ELSE {0}

\* the count of commands the program was made to fail
Failed(failAt) == failures' = IF failAt # 0 THEN failures + 1 ELSE failures

\* a command that exits with the error of resolve_vault_or_exit
Unresolved(op, r, args, dry_run) ==
    /\ last' = Outcome(op, r, NoAdapter, args, dry_run)
    /\ UNCHANGED <<state_file, notes, clock, firstBind, lastBind, ensured, ensuredOk, okRuns, runsBy, failures>>

\* cmd_bootstrap
cmd_bootstrap_step(workspace_arg, project, dry_run) ==
    \E r \in {resolve_vault_or_exit(state_file, workspace_arg)} :
        LET args == [workspace |-> workspace_of(workspace_arg), project |-> project]
        IN  IF r.error # "ok" THEN Unresolved("bootstrap", r, args, dry_run)
            ELSE \E failAt \in FailPoints(bootstrap_body(Adapter(r, dry_run, 0), args, clock)) :
                 \E cli \in {bootstrap_body(Adapter(r, dry_run, failAt), args, clock)} :
                    /\ notes' = [notes EXCEPT ![r.vault_path] = cli.fs]
                    /\ last' = Outcome("bootstrap", r, cli, args, dry_run)
                    /\ Failed(failAt)
                    /\ UNCHANGED <<state_file, clock, firstBind, lastBind, ensured,
                                   ensuredOk, okRuns, runsBy>>

LinesOf(fs, path) == IF path \in DOMAIN fs THEN Len(fs[path].appended) ELSE 0

Bump(counts, key) == DictPut(counts, key, DictGet(counts, key, 0) + 1)

\* cmd_record_run
cmd_record_run_step(workspace_arg, project, title, decisions, questions, dry_run) ==
    \E r \in {resolve_vault_or_exit(state_file, workspace_arg)} :
        LET args == [workspace |-> workspace_of(workspace_arg), project |-> project,
                     title |-> title, summary |-> <<"s">>,
                     decisions |-> decisions, questions |-> questions]
            paths == build_note_paths(Strip(project))
            ws_key == normalize_workspace(workspace_of(workspace_arg))
        IN  IF r.error # "ok" THEN Unresolved("record-run", r, args, dry_run)
            ELSE /\ LinesOf(notes[r.vault_path], paths.run_log) < MaxLines
                 /\ \E failAt \in FailPoints(record_run_body(Adapter(r, dry_run, 0), args, clock)) :
                    \E cli \in {record_run_body(Adapter(r, dry_run, failAt), args, clock)} :
                      /\ notes' = [notes EXCEPT ![r.vault_path] = cli.fs]
                      /\ last' = Outcome("record-run", r, cli, args, dry_run)
                      /\ okRuns' = IF ~cli.raised /\ ~dry_run
                                   THEN Bump(okRuns, <<r.vault_path, paths.project_slug>>)
                                   ELSE okRuns
                      /\ runsBy' = IF ~cli.raised /\ ~dry_run
                                   THEN Bump(runsBy, <<ws_key, paths.project_slug>>)
                                   ELSE runsBy
                      /\ Failed(failAt)
                      /\ UNCHANGED <<state_file, clock, firstBind, lastBind, ensured,
                                     ensuredOk>>

\* a command that only queries the vault: search, read-note, audit
Queried(op, r, cli, args, dry_run) ==
    /\ notes' = [notes EXCEPT ![r.vault_path] = cli.fs]
    /\ last' = Outcome(op, r, cli, args, dry_run)
    /\ Failed(cli.failAt)
    /\ UNCHANGED <<state_file, clock, firstBind, lastBind, ensured, ensuredOk, okRuns, runsBy>>

\* cmd_search
cmd_search_step(workspace_arg, project, dry_run) ==
    \E r \in {resolve_vault_or_exit(state_file, workspace_arg)} :
        LET args == [workspace |-> workspace_of(workspace_arg), project |-> project]
        IN  IF r.error # "ok" THEN Unresolved("search", r, args, dry_run)
            ELSE \E failAt \in FailPoints(search_body(Adapter(r, dry_run, 0), args)) :
                 \E cli \in {search_body(Adapter(r, dry_run, failAt), args)} :
                    Queried("search", r, cli, args, dry_run)

\* cmd_read_note
cmd_read_note_step(workspace_arg, path, dry_run) ==
    \E r \in {resolve_vault_or_exit(state_file, workspace_arg)} :
        LET args == [workspace |-> workspace_of(workspace_arg), path |-> path]
        IN  IF r.error # "ok" THEN Unresolved("read-note", r, args, dry_run)
            ELSE \E failAt \in FailPoints(read(Adapter(r, dry_run, 0), path)) :
                 \E cli \in {read(Adapter(r, dry_run, failAt), path)} :
                    Queried("read-note", r, cli, args, dry_run)

\* cmd_audit
cmd_audit_step(workspace_arg, project, dry_run) ==
    \E r \in {resolve_vault_or_exit(state_file, workspace_arg)} :
        LET args == [workspace |-> workspace_of(workspace_arg), project |-> project]
        IN  IF r.error # "ok" THEN Unresolved("audit", r, args, dry_run)
            ELSE \E failAt \in FailPoints(audit_body(Adapter(r, dry_run, 0), args)) :
                 \E cli \in {audit_body(Adapter(r, dry_run, failAt), args)} :
                    Queried("audit", r, cli, args, dry_run)

CmdSetVault ==
    \E vault_arg \in CmdVaultArgs, workspace_arg \in CmdWsArgs :
        cmd_set_vault_step(vault_arg, workspace_arg)

CmdShowVault == cmd_show_vault_step(NoArg)

CmdBootstrap ==
    \E project \in ProjectArgs, dry_run \in BOOLEAN :
        cmd_bootstrap_step(NoArg, project, dry_run)

CmdRecordRun ==
    \E project \in ProjectArgs, title \in TitleArgs, optional \in OptionalArgs,
       dry_run \in BOOLEAN :
        cmd_record_run_step(NoArg, project, title, optional[1], optional[2], dry_run)

CmdSearch == \E dry_run \in BOOLEAN : cmd_search_step(NoArg, <<"A", "b">>, dry_run)

CmdReadNote ==
    \E dry_run \in BOOLEAN :
        cmd_read_note_step(NoArg, build_note_paths(<<"A", "b">>).run_log, dry_run)

CmdAudit ==
    \E project \in ProjectArgs, dry_run \in BOOLEAN :
        cmd_audit_step(NoArg, project, dry_run)

\* a minute passes
Tick ==
    /\ clock + 1 \in Minutes
    /\ clock' = clock + 1
    /\ UNCHANGED <<state_file, notes, last, firstBind, lastBind, ensured, ensuredOk, okRuns, runsBy, failures>>

Next ==
    \/ CmdSetVault
    \/ CmdBootstrap
    \/ CmdRecordRun
    \/ CmdAudit
    \/ Tick

Spec == Init /\ [][Next]_vars

(***************************************************************************)
(* Claims on bootstrap and record-run                                      *)
(***************************************************************************)
\* a note under <project dir>/Runs
IsRunNote(path) == Len(path) = 4 /\ path[1] = PROJECT_ROOT /\ path[3] = <<"Runs">>

RunNotes(fs) == {path \in DOMAIN fs : IsRunNote(path)}

\* the paths of the five seed notes of a project argument
SeedPaths(project) ==
    LET paths == build_note_paths(Strip(project))
    IN  {paths.home, paths.moc, paths.run_log, paths.decisions, paths.questions}

\* every note of fs is in fs2 with the same content
Kept(fs, fs2) == \A path \in DOMAIN fs : path \in DOMAIN fs2 /\ fs2[path] = fs[path]

\* C6 as stated: a bootstrap run after another bootstrap for the same
\* project and workspace leaves the vault with the notes and the content
\* the first one left.
C6_SecondBootstrapChangesNothing ==
    [][(last.op = "bootstrap" /\ last.exit = 0 /\
        last'.op = "bootstrap" /\ last'.exit = 0 /\ last'.args = last.args)
            => notes' = notes]_vars

\* C6 amended: a bootstrap never changes or removes a note that exists and
\* creates nothing but missing seed notes; one that runs outside dry-run
\* mode and exits 0 leaves all five seed notes in the vault; and one that
\* finds all five leaves the vault exactly as it was.
C6_BootstrapOnlyAddsMissingSeeds ==
    [][last'.op = "bootstrap" =>
        /\ \A v \in Dirs :
            /\ Kept(notes[v], notes'[v])
            /\ DOMAIN notes'[v] \subseteq DOMAIN notes[v] \cup SeedPaths(last'.args.project)
            /\ SeedPaths(last'.args.project) \subseteq DOMAIN notes[v]
                    => notes'[v] = notes[v]
        /\ (last'.exit = 0 /\ ~last'.dry_run)
                => SeedPaths(last'.args.project) \subseteq DOMAIN notes'[last'.vault]]_vars

\* a bootstrap at a later minute found the five seed notes, an appended Run
\* Log line among them, and created nothing
C6_Witness ==
    /\ last.op = "bootstrap" /\ last.exit = 0 /\ ~last.dry_run
    /\ last.issued = <<>>
    /\ LET paths == build_note_paths(Strip(last.args.project))
       IN  /\ SeedPaths(last.args.project) \subseteq DOMAIN notes[last.vault]
           /\ notes[last.vault][paths.home].text.created # clock
           /\ LinesOf(notes[last.vault], paths.run_log) > 0

\* the run note path and the Run Log of a record-run, from its outcome
RunNotePathIn(outcome, at) ==
    run_note_path_of(build_note_paths(Strip(outcome.args.project)), outcome.args.title, at)

RunLogIn(outcome) == build_note_paths(Strip(outcome.args.project)).run_log

\* C7 as stated: every record-run that exits 0 (outside dry-run mode) adds
\* exactly one run note under Runs/ and exactly one line to the Run Log.
C7_EachRunAddsOneNoteAndOneLine ==
    [][okRuns' # okRuns =>
        LET v == last'.vault
            run_log == RunLogIn(last')
        IN  /\ Cardinality(RunNotes(notes'[v])) = Cardinality(RunNotes(notes[v])) + 1
            /\ LinesOf(notes'[v], run_log) = LinesOf(notes[v], run_log) + 1]_vars

\* C7 amended: every record-run that exits 0 outside dry-run mode appends
\* exactly one line to the Run Log, referring to its run note, and leaves
\* that run note in the vault; it creates the note unless one exists at
\* that path already, and then the run notes are the ones there were.
C7_RunAppendsOneLineAndEnsuresNote ==
    [][okRuns' # okRuns =>
        LET v == last'.vault
            run_log == RunLogIn(last')
            run_note_path == RunNotePathIn(last', clock')
            lines == notes'[v][run_log].appended
        IN  /\ Len(lines) = LinesOf(notes[v], run_log) + 1
            /\ lines[Len(lines)].ref = Stem(run_note_path)
            /\ RunNotes(notes'[v]) = RunNotes(notes[v]) \cup {run_note_path}
            /\ \A path \in RunNotes(notes[v]) : notes'[v][path] = notes[v][path]
            /\ \A w \in Dirs \ {v} : notes'[w] = notes[w]]_vars

\* two record-runs in one minute with one title exited 0: one run note, two
\* Run Log lines
C7_Witness ==
    /\ last.op = "record-run" /\ last.exit = 0 /\ ~last.dry_run
    /\ okRuns[<<last.vault, slugify(last.args.project)>>] = 2
    /\ RunNotes(notes[last.vault]) = {RunNotePathIn(last, clock)}
    /\ LinesOf(notes[last.vault], RunLogIn(last)) = 2

\* C8: once a run note exists, no step of bootstrap, record-run or audit,
\* in any order, changes or removes it.
C8_RunNotesImmutable ==
    [][\A v \in Dirs : \A path \in RunNotes(notes[v]) :
            path \in DOMAIN notes'[v] /\ notes'[v][path] = notes[v][path]]_vars

\* a record-run with decisions found the run note of an earlier run without
\* decisions at its path, and the note still says "None."
C8_Witness ==
    /\ last.op = "record-run" /\ last.exit = 0 /\ ~last.dry_run
    /\ last.args.decisions = <<"x">>
    /\ RunNotePathIn(last, clock) \in DOMAIN notes[last.vault]
    /\ notes[last.vault][RunNotePathIn(last, clock)].text.decisions = <<"None.">>
    /\ LinesOf(notes[last.vault], build_note_paths(Strip(last.args.project)).decisions) > 0

\* an audit check is among the commands
AuditIssued(issued) ==
    \E i \in 1..Len(issued) :
        issued[i].command \in {"unresolved", "orphans", "deadends", "backlinks"}

\* C9: whatever the audit frequency F > 0, the record-run that makes the
\* runs of its (workspace, project) a multiple of F runs the audit checks.
C9_AuditEveryFthRun ==
    (last.op = "record-run" /\ last.exit = 0 /\ ~last.dry_run) =>
        LET key == <<normalize_workspace(last.args.workspace),
                     build_note_paths(Strip(last.args.project)).project_slug>>
        IN  \A F \in 1..MaxFreq : runsBy[key] % F = 0 => AuditIssued(last.issued)

(***************************************************************************)
(* Run counters of the ConfigStore: bump_run_counter and reset_run_counter *)
(* as ConfigStore methods over the document that load reads and save       *)
(* writes, one counter per (workspace, project slug)                       *)
(***************************************************************************)
run_counter_key(workspace, project_slug) == <<normalize_workspace(workspace), project_slug>>

run_counters(file) == DictGet(load(file), "run_counters", EmptyDict)

\* the document bump_run_counter saves and the count it returns
bump_run_counter(file, workspace, project_slug) ==
    LET data == load(file)
        counters == DictGet(data, "run_counters", EmptyDict)
        key == run_counter_key(workspace, project_slug)
        count == DictGet(counters, key, 0) + 1
    IN  [data |-> DictPut(data, "run_counters", DictPut(counters, key, count)),
         count |-> count]

\* the document reset_run_counter saves
reset_run_counter(file, workspace, project_slug) ==
    LET data == load(file)
        counters == DictGet(data, "run_counters", EmptyDict)
    IN  DictPut(data, "run_counters",
                DictPut(counters, run_counter_key(workspace, project_slug), 0))

CounterWsArgs == {<<"a">>, <<"a", "b">>, <<"a", "b", "..">>}
CounterSlugs == {<<"p">>, <<"q">>}

CounterBump ==
    \E workspace \in CounterWsArgs, project_slug \in CounterSlugs :
        \E r \in {bump_run_counter(state_file, workspace, project_slug)} :
            /\ r.count <= MaxCount
            /\ state_file' = save(r.data)
            /\ last' = [op |-> "bump_run_counter",
                        key |-> run_counter_key(workspace, project_slug),
                        result |-> r.count, before |-> run_counters(state_file)]
            /\ UNCHANGED <<notes, clock, firstBind, lastBind, ensured, ensuredOk,
                           okRuns, runsBy, failures>>

CounterReset ==
    \E workspace \in CounterWsArgs, project_slug \in CounterSlugs :
        /\ state_file' = save(reset_run_counter(state_file, workspace, project_slug))
        /\ last' = [op |-> "reset_run_counter",
                    key |-> run_counter_key(workspace, project_slug),
                    before |-> run_counters(state_file)]
        /\ UNCHANGED <<notes, clock, firstBind, lastBind, ensured, ensuredOk,
                       okRuns, runsBy, failures>>

\* a bind between the counter calls: set_vault rewrites the same document
CounterSetVault ==
    \E vault_arg \in {<<"v1">>}, workspace_arg \in CmdWsArgs :
        cmd_set_vault_step(vault_arg, workspace_arg)

NextCounter == CounterBump \/ CounterReset \/ CounterSetVault

SpecCounter == Init /\ [][NextCounter]_vars

\* the other counters are as they were before the call in `last`
OthersKept ==
    /\ DOMAIN run_counters(state_file) = DOMAIN last.before \cup {last.key}
    /\ \A key \in DOMAIN last.before \ {last.key} :
            DictGet(run_counters(state_file), key, 0) = last.before[key]

NextQuery ==
    \/ CmdSetVault
    \/ CmdBootstrap
    \/ CmdShowVault
    \/ CmdSearch
    \/ CmdReadNote
    \/ CmdAudit
    \/ Tick

SpecQuery == Init /\ [][NextQuery]_vars

(***************************************************************************)
(* All subcommands together                                                *)
(***************************************************************************)
NextCommands ==
    \/ CmdSetVault
    \/ CmdShowVault
    \/ CmdBootstrap
    \/ CmdRecordRun
    \/ CmdSearch
    \/ CmdReadNote
    \/ CmdAudit
    \/ Tick

SpecCommands == Init /\ [][NextCommands]_vars

\* the subcommands that use the vault
VaultOps == {"bootstrap", "record-run", "search", "read-note", "audit"}

\* C11: a bootstrap, record-run, search, read-note or audit whose workspace
\* resolves to no vault (no binding on it or an ancestor, no default) exits
\* non-zero having issued no command to the obsidian program, and the
\* vaults are as they were.
C11_UnresolvedIssuesNothing ==
    [][(last'.op \in VaultOps /\
        ~Truthy(resolve_vault(state_file', last'.args.workspace))) =>
            /\ last'.error = "NoVaultConfigured"
            /\ last'.exit # 0
            /\ last'.issued = <<>>
            /\ notes' = notes]_vars

\* a record-run outside dry-run mode before any vault was saved
C11_Witness ==
    /\ last.op = "record-run" /\ ~last.dry_run
    /\ ~Truthy(resolve_vault(state_file, last.args.workspace))
    /\ last.error = "NoVaultConfigured"
    /\ last.issued = <<>>
    /\ \A v \in Dirs : notes[v] = EmptyDict

\* the command the obsidian program failed in the invocation of `outcome`
FailedCommand(outcome) == outcome.issued[outcome.failAt]

\* C12: when the obsidian program fails the create command of a seed note
\* during record-run, the invocation ends there with a non-zero exit: no
\* further command is issued, no run note is created and nothing is
\* appended to any note.
C12_SeedFailureAborts ==
    [][(last'.op = "record-run" /\ last'.failAt > 0 /\
        FailedCommand(last').command = "create" /\
        FailedCommand(last').path \in SeedPaths(last'.args.project)) =>
            /\ last'.exit # 0
            /\ Len(last'.issued) = last'.failAt
            /\ \A v \in Dirs :
                /\ RunNotes(notes'[v]) = RunNotes(notes[v])
                /\ \A path \in DOMAIN notes[v] : notes'[v][path] = notes[v][path]
                /\ \A path \in DOMAIN notes'[v] \ DOMAIN notes[v] :
                        /\ path \in SeedPaths(last'.args.project)
                        /\ notes'[v][path].appended = <<>>]_vars

\* the create command of the third seed note failed: two seed notes, no
\* run note, no appended line
C12_Witness ==
    /\ last.op = "record-run" /\ last.failAt = 3 /\ last.exit # 0
    /\ Len(last.issued) = 3
    /\ last.issued[3].path = RunLogIn(last)
    /\ Cardinality(DOMAIN notes[last.vault]) = 2
    /\ RunNotes(notes[last.vault]) = {}

\* C13: when an append to the Run Log, Decisions or Open Questions note
\* fails during record-run, the run note is in the vault when the
\* invocation ends: as this invocation created it, or, when it was there
\* before, as it was.
C13_AppendFailureKeepsRunNote ==
    [][(failures' # failures /\ last'.op = "record-run" /\
        FailedCommand(last').command = "append") =>
            LET v == last'.vault
                project == Strip(last'.args.project)
                paths == build_note_paths(project)
                run_note_path == RunNotePathIn(last', clock')
            IN  /\ run_note_path \in DOMAIN notes'[v]
                /\ notes'[v][run_note_path] =
                        IF run_note_path \in DOMAIN notes[v]
                        THEN notes[v][run_note_path]
                        ELSE NewNote(RunContent(project, paths, last'.args, clock'))]_vars

\* the append to Decisions failed after this invocation created the run
\* note and appended to the Run Log
C13_Witness ==
    /\ last.op = "record-run" /\ last.exit # 0 /\ last.failAt > 0
    /\ FailedCommand(last).command = "append"
    /\ FailedCommand(last).path = build_note_paths(Strip(last.args.project)).decisions
    /\ \E i \in 1..Len(last.issued) :
            last.issued[i] = [command |-> "create", path |-> RunNotePathIn(last, clock)]
    /\ RunNotePathIn(last, clock) \in DOMAIN notes[last.vault]
    /\ LinesOf(notes[last.vault], RunLogIn(last)) = 1


(***************************************************************************)
(* Hook adapters: JSON values as the hooks see them after json.loads.      *)
(* Keywords (keys, roles, event names, fixed phrases) are one token each;  *)
(* free text is a sequence of characters.                                  *)
(***************************************************************************)
JNone == [t |-> "null"]
JStr(s) == [t |-> "str", s |-> s]
JNum(n) == [t |-> "num", n |-> n]
JList(items) == [t |-> "list", items |-> items]
JObj(d) == [t |-> "obj", d |-> d]

\* dict.get(key), dict.get(key, default)
Get(d, key) == DictGet(d, key, JNone)

\* bool(x)
PyTruthy(x) ==
    CASE x.t = "str" -> x.s # <<>>
      [] x.t = "num" -> x.n # 0
      [] x.t = "list" -> x.items # <<>>
      [] x.t = "obj" -> DOMAIN x.d # {}
      [] OTHER -> FALSE

\* a or b
PyOr(a, b) == IF PyTruthy(a) THEN a ELSE b

\* str(x)
PyStr(x) ==
    CASE x.t = "str" -> x.s
      [] x.t = "num" -> <<Digit(x.n)>>
      [] x.t = "null" -> <<"None">>
      [] OTHER -> <<"<repr>">>

\* isinstance(x, str) and x.strip()
IsText(x) == x.t = "str" /\ Strip(x.s) # <<>>

\* sep.join(parts)
RECURSIVE Join(_, _)
Join(sep, parts) ==
    IF parts = <<>> THEN <<>>
    ELSE IF Len(parts) = 1 THEN parts[1]
    ELSE parts[1] \o sep \o Join(sep, Tail(parts))

\* [t for t in parts if t.strip()]
NonBlank(parts) == SelectSeq(parts, LAMBDA part : Strip(part) # <<>>)

\* the caps on the prompt and the summary (3000 and 500 characters in the
\* source), scaled down
PromptCap == 5
SummaryCap == 4

NoPrompt == <<"No user prompt captured.">>
NoSummary == <<"No assistant summary captured.">>
Ellipsis == <<".", ".", ".">>

\* re.sub(r"\s+", " ", text)
RECURSIVE CollapseSpace(_, _)
CollapseSpace(text, inRun) ==
    IF text = <<>> THEN <<>>
    ELSE IF Head(text) \notin Whitespace
    THEN <<Head(text)>> \o CollapseSpace(Tail(text), FALSE)
    ELSE IF inRun THEN CollapseSpace(Tail(text), TRUE)
    ELSE <<" ">> \o CollapseSpace(Tail(text), TRUE)

\* the text truncate works on
Collapsed(text) == Strip(CollapseSpace(text, FALSE))

Max(a, b) == IF a > b THEN a ELSE b

\* truncate
truncate_keeping_tail(text, limit) ==
    LET collapsed == Collapsed(text)
    IN  IF Len(collapsed) <= limit THEN collapsed
        ELSE SubSeq(collapsed, 1, limit) \o Ellipsis

truncate(text, limit) ==
    LET collapsed == Collapsed(text)
    IN  IF Len(collapsed) <= limit THEN collapsed
        ELSE RStrip(Whitespace, SubSeq(collapsed, 1, Max(0, limit - 3))) \o Ellipsis

\* content_to_text
ChunkOf(item) ==
    IF item.t = "str" THEN <<item.s>>
    ELSE IF item.t = "obj" /\ Get(item.d, "text").t = "str" THEN <<Get(item.d, "text").s>>
    ELSE <<>>

RECURSIVE Chunks(_)
Chunks(items) ==
    IF items = <<>> THEN <<>> ELSE ChunkOf(Head(items)) \o Chunks(Tail(items))

content_to_text(content) ==
    IF content.t = "str" THEN content.s
    ELSE IF content.t = "list" THEN Join(<<"\n">>, Chunks(content.items))
    ELSE <<>>

\* the dict items of the first key that holds a list with any:
\* _extract_messages of the Claude hook, _messages of Cursor and Antigravity
RECURSIVE MessagesUnder(_, _)
MessagesUnder(payload, keys) ==
    IF keys = <<>> THEN <<>>
    ELSE LET value == Get(payload, Head(keys))
             out == IF value.t = "list"
                    THEN SelectSeq(value.items, LAMBDA item : item.t = "obj")
                    ELSE <<>>
         IN  IF out # <<>> THEN out ELSE MessagesUnder(payload, Tail(keys))

\* the first of the keys whose value is a string with more than blanks
RECURSIVE FirstText(_, _)
FirstText(payload, keys) ==
    IF keys = <<>> THEN "<none>"
    ELSE IF IsText(Get(payload, Head(keys))) THEN Head(keys)
    ELSE FirstText(payload, Tail(keys))

\* str(msg.get("role", "")).lower()
RoleOf(msg) == Lower(PyStr(DictGet(msg.d, "role", JStr(<<>>))))

\* str(msg.get("role", msg.get("author", ""))).lower()
RoleOrAuthorOf(msg) ==
    Lower(PyStr(DictGet(msg.d, "role", DictGet(msg.d, "author", JStr(<<>>)))))

\* the texts of the messages whose role is one of `roles`
RECURSIVE TextsByRole(_, _)
TextsByRole(msgs, roles) ==
    IF msgs = <<>> THEN <<>>
    ELSE (IF RoleOf(Head(msgs)) \in roles
          THEN <<content_to_text(Get(Head(msgs).d, "content"))>> ELSE <<>>)
         \o TextsByRole(Tail(msgs), roles)

RECURSIVE TextsByRoleOrAuthor(_, _)
TextsByRoleOrAuthor(msgs, roles) ==
    IF msgs = <<>> THEN <<>>
    ELSE (IF RoleOrAuthorOf(Head(msgs)) \in roles
          THEN <<content_to_text(PyOr(Get(Head(msgs).d, "content"),
                                      Get(Head(msgs).d, "text")))>>
          ELSE <<>>)
         \o TextsByRoleOrAuthor(Tail(msgs), roles)

UserRoles == {<<"user">>, <<"human">>}
AssistantRoles == {<<"assistant">>, <<"ai">>}
Paragraph == <<"\n", "\n">>


(***************************************************************************)
(* extract_prompt and extract_summary of the four hooks                    *)
(***************************************************************************)
\* the for loop of the Codex extract_prompt over input-messages
RECURSIVE CodexMessageTexts(_)
CodexMessageTexts(messages) ==
    IF messages = <<>> THEN <<>>
    ELSE (IF Head(messages).t = "str" THEN <<Head(messages).s>>
          ELSE IF Head(messages).t = "obj"
          THEN <<content_to_text(Get(Head(messages).d, "content"))>>
          ELSE <<>>)
         \o CodexMessageTexts(Tail(messages))

codex_extract_prompt(payload) ==
    LET messages == Get(payload, "input-messages")
    IN  IF messages.t # "list" THEN NoPrompt
        ELSE LET joined == Join(Paragraph, NonBlank(CodexMessageTexts(messages.items)))
             IN  IF joined = <<>> THEN NoPrompt ELSE truncate(joined, PromptCap)

codex_extract_summary(payload) ==
    LET assistant == Get(payload, "last-assistant-message")
    IN  IF ~IsText(assistant) THEN NoSummary ELSE truncate(assistant.s, SummaryCap)

claude_extract_prompt(payload) ==
    LET key == FirstText(payload, <<"prompt", "user_prompt", "message", "input">>)
        messages == MessagesUnder(payload, <<"messages", "input", "chat">>)
        text == Join(Paragraph, NonBlank(TextsByRole(messages, UserRoles)))
    IN  IF key # "<none>" THEN truncate(payload[key].s, PromptCap)
        ELSE truncate(OrElse(text, NoPrompt), PromptCap)

claude_extract_summary(payload) ==
    LET key == FirstText(payload, <<"last_assistant_message", "assistant", "response",
                                    "output", "tool_response">>)
        tool_name == Get(payload, "tool_name")
        messages == MessagesUnder(payload, <<"messages", "input", "chat">>)
        text == Join(Paragraph, NonBlank(TextsByRole(messages, AssistantRoles)))
    IN  IF key # "<none>" THEN truncate(payload[key].s, SummaryCap)
        ELSE IF IsText(tool_name)
        THEN truncate(<<"Claude hook event for tool: ">> \o tool_name.s, SummaryCap)
        ELSE truncate(OrElse(text, NoSummary), SummaryCap)

cursor_extract_prompt_field_first(payload) ==
    LET msgs == MessagesUnder(payload, <<"messages", "chat_messages", "conversation",
                                         "transcript">>)
        joined == Join(Paragraph, NonBlank(TextsByRoleOrAuthor(msgs, UserRoles)))
        prompted == IF Get(payload, "prompt").t = "str" /\ Truthy(payload["prompt"].s)
                    THEN payload["prompt"].s ELSE joined
        prompt == IF ~Truthy(prompted) /\ Get(payload, "summary").t = "str"
                  THEN payload["summary"].s ELSE prompted
    IN  truncate(OrElse(prompt, NoPrompt), PromptCap)

cursor_extract_prompt(payload) ==
    LET msgs == MessagesUnder(payload, <<"messages", "chat_messages", "conversation",
                                         "transcript">>)
        joined == Join(Paragraph, NonBlank(TextsByRoleOrAuthor(msgs, UserRoles)))
        prompted == IF ~Truthy(joined) /\ Get(payload, "prompt").t = "str"
                    THEN payload["prompt"].s ELSE joined
        prompt == IF ~Truthy(prompted) /\ Get(payload, "summary").t = "str"
                  THEN payload["summary"].s ELSE prompted
    IN  truncate(OrElse(prompt, NoPrompt), PromptCap)

cursor_extract_summary(payload) ==
    LET key == FirstText(payload, <<"assistant_message", "last_assistant_message",
                                    "response", "output", "summary">>)
        status == Get(payload, "status")
        msgs == MessagesUnder(payload, <<"messages", "chat_messages", "conversation",
                                         "transcript">>)
        summary == Join(Paragraph, NonBlank(TextsByRoleOrAuthor(msgs, AssistantRoles)))
    IN  IF key # "<none>"
        THEN IF IsText(status) /\ key = "summary"
             THEN truncate(payload[key].s \o <<" ", "(status: ">> \o status.s \o <<")">>,
                           SummaryCap)
             ELSE truncate(payload[key].s, SummaryCap)
        ELSE truncate(OrElse(summary, NoSummary), SummaryCap)

antigravity_extract_prompt(payload) ==
    LET msgs == MessagesUnder(payload, <<"messages", "conversation", "transcript", "turn">>)
        joined == Join(Paragraph, NonBlank(TextsByRoleOrAuthor(msgs, UserRoles)))
        prompt == IF ~Truthy(joined) /\ Get(payload, "prompt").t = "str"
                  THEN payload["prompt"].s ELSE joined
    IN  truncate(OrElse(prompt, NoPrompt), PromptCap)

antigravity_extract_summary(payload) ==
    LET key == FirstText(payload, <<"assistant", "assistant_message",
                                    "last_assistant_message", "output", "response">>)
        msgs == MessagesUnder(payload, <<"messages", "conversation", "transcript", "turn">>)
        summary == Join(Paragraph, NonBlank(TextsByRoleOrAuthor(msgs, AssistantRoles)))
    IN  IF key # "<none>" THEN truncate(payload[key].s, SummaryCap)
        ELSE truncate(OrElse(summary, NoSummary), SummaryCap)

HookNames == {"codex", "claude", "cursor", "antigravity"}

\* extract_prompt, extract_summary of the module of one hook
extract_prompt(hook, payload) ==
    CASE hook = "codex" -> codex_extract_prompt(payload)
      [] hook = "claude" -> claude_extract_prompt(payload)
      [] hook = "cursor" -> cursor_extract_prompt(payload)
      [] OTHER -> antigravity_extract_prompt(payload)

extract_summary(hook, payload) ==
    CASE hook = "codex" -> codex_extract_summary(payload)
      [] hook = "claude" -> claude_extract_summary(payload)
      [] hook = "cursor" -> cursor_extract_summary(payload)
      [] OTHER -> antigravity_extract_summary(payload)


(***************************************************************************)
(* The main functions of the hooks up to the calls of obsidian_memory.py.  *)
(* The input of a hook is the raw text it was handed:                      *)
(*   kind     "empty", "invalid" (not JSON), "array" (JSON, not an object) *)
(*            or "object"                                                  *)
(*   text     the raw text, one token                                      *)
(*   payload  the dict json.loads returns for an object                    *)
(* and its environment: the CURSOR_* variables, "" when unset.             *)
(***************************************************************************)
Skip(reason) ==
    [stage |-> "skip", reason |-> reason, exit |-> 0, workspace_path |-> <<>>,
     project_name |-> <<>>, turn_id |-> <<>>, prompt |-> <<>>, summary |-> <<>>]

\* an exception nothing catches: the interpreter prints it and exits with 1
Uncaught(exception) ==
    [stage |-> "raise", reason |-> exception, exit |-> 1, workspace_path |-> <<>>,
     project_name |-> <<>>, turn_id |-> <<>>, prompt |-> <<>>, summary |-> <<>>]

Turn(workspace_path, project_name, turn_id, prompt, summary) ==
    [stage |-> "log_turn", reason |-> "none", exit |-> 0,
     workspace_path |-> workspace_path, project_name |-> project_name,
     turn_id |-> turn_id, prompt |-> prompt, summary |-> summary]

\* read_json_payload: the dict, or None
read_json_payload(raw) == IF raw.kind = "object" THEN JObj(raw.payload) ELSE JNone

\* Path(value).resolve() in the working directory of the hook
HookPath(s) ==
    IF Head(s) = "/" THEN Resolve(Tail(s)) ELSE Resolve(Cwd \o s)

\* resolve_path: the resolved path, or the TypeError of Path(value)
resolve_path(value) ==
    IF ~PyTruthy(value) THEN [raised |-> FALSE, path |-> HookPath(<<".">>)]
    ELSE IF value.t # "str" THEN [raised |-> TRUE, path |-> <<>>]
    ELSE [raised |-> FALSE, path |-> HookPath(value.s)]

\* Path(workspace_path).name or "Project"
NameOr(path, default) == IF path = <<>> THEN default ELSE <<path[Len(path)]>>

\* "agent-turn-complete", in the pieces the Antigravity hook looks for
AgentTurnComplete == <<"agent-", "turn", "-", "complete">>

\* main of codex_notify_hook.py
codex_main(raw) ==
    IF raw.kind # "object" THEN Skip(raw.kind)
    ELSE IF Get(raw.payload, "type") # JStr(AgentTurnComplete) THEN Skip("event")
    ELSE LET cwd == Get(raw.payload, "cwd")
             workspace == IF cwd.t # "str" \/ ~PyTruthy(cwd) THEN <<".">> ELSE cwd.s
         IN  Turn(HookPath(workspace), NameOr(HookPath(workspace), <<"Project">>),
                  PyStr(DictGet(raw.payload, "turn-id", JStr(<<"unknown-turn">>))),
                  codex_extract_prompt(raw.payload), codex_extract_summary(raw.payload))

ClaudeEvents ==
    {<<"UserPromptSubmit">>, <<"PreToolUse">>, <<"PostToolUse">>, <<"Notification">>,
     <<"Stop">>, <<"SubagentStop">>, <<"PreCompact">>, <<"SessionStart">>,
     <<"SessionEnd">>}

\* main of claude_notify_hook.py
claude_main_any_event(raw) ==
    IF raw.kind # "object" THEN Skip(raw.kind)
    ELSE LET payload == raw.payload
             event_name == Strip(PyStr(PyOr(Get(payload, "hook_event_name"),
                                 PyOr(Get(payload, "type"),
                                 PyOr(Get(payload, "event"), JStr(<<>>))))))
             workspace == resolve_path(PyOr(Get(payload, "cwd"),
                                       PyOr(Get(payload, "workspace"),
                                            Get(payload, "project_path"))))
             session_id == PyStr(PyOr(Get(payload, "session_id"),
                                 PyOr(Get(payload, "sessionId"),
                                      JStr(<<"unknown-session">>))))
         IN  IF ~Truthy(event_name) THEN Skip("event")
             ELSE IF workspace.raised THEN Uncaught("TypeError")
             ELSE Turn(workspace.path, NameOr(workspace.path, <<"Project">>),
                       session_id \o <<":">> \o event_name,
                       claude_extract_prompt(payload), claude_extract_summary(payload))

claude_main(raw) ==
    IF raw.kind # "object" THEN Skip(raw.kind)
    ELSE LET payload == raw.payload
             event_name == Strip(PyStr(PyOr(Get(payload, "hook_event_name"),
                                 PyOr(Get(payload, "type"),
                                 PyOr(Get(payload, "event"), JStr(<<>>))))))
             workspace == resolve_path(PyOr(Get(payload, "cwd"),
                                       PyOr(Get(payload, "workspace"),
                                            Get(payload, "project_path"))))
             session_id == PyStr(PyOr(Get(payload, "session_id"),
                                 PyOr(Get(payload, "sessionId"),
                                      JStr(<<"unknown-session">>))))
         IN  IF ~Truthy(event_name) THEN Skip("event")
             ELSE IF event_name \notin ClaudeEvents THEN Skip("event")
             ELSE IF workspace.raised THEN Uncaught("TypeError")
             ELSE Turn(workspace.path, NameOr(workspace.path, <<"Project">>),
                       session_id \o <<":">> \o event_name,
                       claude_extract_prompt(payload), claude_extract_summary(payload))


\* os.environ.get(name), "" for an unset variable
EnvGet(env, name) == DictGet(env, name, <<>>)

\* hmac.new(secret, raw_payload, hashlib.sha256).hexdigest(): one digest
\* for each secret and text, different for different ones
HmacSha256(secret, text) == <<"hmac(">> \o secret \o <<",", text, ")">>

\* _extract_signature of cursor_notify_hook.py
_extract_signature(payload, env) ==
    IF Truthy(Strip(EnvGet(env, "CURSOR_WEBHOOK_SIGNATURE")))
    THEN Strip(EnvGet(env, "CURSOR_WEBHOOK_SIGNATURE"))
    ELSE IF Truthy(Strip(EnvGet(env, "CURSOR_SIGNATURE")))
    THEN Strip(EnvGet(env, "CURSOR_SIGNATURE"))
    ELSE IF IsText(Get(payload, "signature")) THEN Strip(payload["signature"].s)
    ELSE <<>>

\* signature.split("=", 1)[1] of a signature that starts with "sha256="
Unprefixed(signature) ==
    IF signature # <<>> /\ Head(signature) = "sha256=" THEN Tail(signature) ELSE signature

\* _validate_signature of cursor_notify_hook.py
_validate_signature_unsigned_ok(raw, env) ==
    LET secret == Strip(EnvGet(env, "CURSOR_WEBHOOK_SECRET"))
        signature == _extract_signature(raw.payload, env)
    IN  IF ~Truthy(secret) THEN TRUE
        ELSE IF ~Truthy(signature) THEN TRUE
        ELSE Unprefixed(signature) = HmacSha256(secret, raw.text)

_validate_signature(raw, env) ==
    LET secret == Strip(EnvGet(env, "CURSOR_WEBHOOK_SECRET"))
        signature == _extract_signature(raw.payload, env)
    IN  IF ~Truthy(secret) THEN TRUE
        ELSE IF ~Truthy(signature) THEN FALSE
        ELSE Unprefixed(signature) = HmacSha256(secret, raw.text)

\* characters outside ASCII
NonAscii == {"<non-ascii>"}

\* hmac.compare_digest raises TypeError on a str with a character outside
\* ASCII: whether _validate_signature reaches it with such a signature
compare_digest_raises(raw, env) ==
    /\ Truthy(Strip(EnvGet(env, "CURSOR_WEBHOOK_SECRET")))
    /\ \E i \in 1..Len(Unprefixed(_extract_signature(raw.payload, env))) :
           Unprefixed(_extract_signature(raw.payload, env))[i] \in NonAscii

\* the part after the last "/"
RECURSIVE LastSegment(_)
LastSegment(s) ==
    IF \E i \in 1..Len(s) : s[i] = "/"
    THEN LastSegment(Tail(s)) ELSE s

\* _repo_name_from_source of cursor_notify_hook.py
_repo_name_from_source(payload) ==
    LET source == Get(payload, "source")
        repo == IF source.t = "obj" THEN Get(source.d, "repository") ELSE JNone
    IN  IF ~IsText(repo) THEN <<>>
        ELSE LastSegment(RStrip({"/"}, Strip(repo.s)))

\* main of cursor_notify_hook.py
cursor_main(raw, env) ==
    IF raw.kind # "object" THEN Skip(raw.kind)
    ELSE IF compare_digest_raises(raw, env) THEN Uncaught("TypeError:compare_digest")
    ELSE IF ~_validate_signature(raw, env) THEN Skip("signature")
    ELSE LET payload == raw.payload
             event_name == Strip(PyStr(PyOr(Get(payload, "event"),
                                 PyOr(Get(payload, "type"), JStr(<<>>)))))
             named == PyOr(Get(payload, "workspace"),
                      PyOr(Get(payload, "cwd"), Get(payload, "project")))
             workspace == resolve_path(
                 IF PyTruthy(named) THEN named
                 ELSE JStr(OrElse(EnvGet(env, "CURSOR_WORKSPACE"),
                                  EnvGet(env, "CURSOR_PROJECT_DIR"))))
             turn_id == PyStr(PyOr(Get(payload, "id"), PyOr(Get(payload, "turnId"),
                              PyOr(Get(payload, "turn_id"), JStr(<<"unknown-turn">>)))))
         IN  IF ~Truthy(event_name) THEN Skip("event")
             ELSE IF workspace.raised THEN Uncaught("TypeError")
             ELSE Turn(workspace.path,
                       OrElse(_repo_name_from_source(payload),
                              NameOr(workspace.path, <<"Project">>)),
                       turn_id, cursor_extract_prompt(payload),
                       cursor_extract_summary(payload))

\* _event_payload of antigravity_notify_hook.py
RECURSIVE NestedUnder(_, _)
NestedUnder(payload, keys) ==
    IF keys = <<>> THEN payload
    ELSE IF Get(payload, Head(keys)).t = "obj" THEN payload[Head(keys)].d
    ELSE NestedUnder(payload, Tail(keys))

_event_payload(payload) == NestedUnder(payload, <<"data", "event", "payload">>)

\* token in event_type, for the keywords of the Antigravity hook
Mentions(event_type, tokens) == \E i \in 1..Len(event_type) : event_type[i] \in tokens

\* main of antigravity_notify_hook.py
antigravity_main(raw) ==
    IF raw.kind # "object" THEN Skip(raw.kind)
    ELSE LET outer == raw.payload
             payload == _event_payload(outer)
             event_type == Lower(PyStr(PyOr(Get(payload, "type"),
                                 PyOr(Get(outer, "type"),
                                 PyOr(Get(payload, "event"), JStr(<<>>))))))
             workspace == resolve_path(PyOr(Get(payload, "cwd"),
                                       PyOr(Get(payload, "workspace"),
                                       PyOr(Get(outer, "cwd"), Get(outer, "workspace")))))
             turn_id == PyStr(PyOr(Get(payload, "turn_id"), PyOr(Get(payload, "turnId"),
                              PyOr(Get(payload, "id"), PyOr(Get(outer, "id"),
                                   JStr(<<"unknown-turn">>))))))
         IN  IF Truthy(event_type) /\ ~Mentions(event_type, {"turn", "message", "complete"})
             THEN Skip("event")
             ELSE IF workspace.raised THEN Uncaught("TypeError")
             ELSE Turn(workspace.path, NameOr(workspace.path, <<"Project">>), turn_id,
                       antigravity_extract_prompt(payload),
                       antigravity_extract_summary(payload))

\* main of one hook
hook_main_lenient(hook, raw, env) ==
    CASE hook = "codex" -> codex_main([raw EXCEPT !.kind = "object"])
      [] hook = "claude" -> claude_main([raw EXCEPT !.kind = "object"])
      [] hook = "cursor" -> cursor_main([raw EXCEPT !.kind = "object"], env)
      [] OTHER -> antigravity_main([raw EXCEPT !.kind = "object"])

hook_main(hook, raw, env) ==
    CASE hook = "codex" -> codex_main(raw)
      [] hook = "claude" -> claude_main(raw)
      [] hook = "cursor" -> cursor_main(raw, env)
      [] OTHER -> antigravity_main(raw)


(***************************************************************************)
(* log_turn, and the same calls at the end of the Codex main               *)
(***************************************************************************)
TitleWords == 8
Punctuation == {".", "!", ":", ",", "(", ")"}

\* words[:n] of a text with single spaces, joined again
RECURSIVE TakeWords(_, _)
TakeWords(text, n) ==
    IF text = <<>> THEN <<>>
    ELSE IF Head(text) # " " THEN <<Head(text)>> \o TakeWords(Tail(text), n)
    ELSE IF n = 1 THEN <<>>
    ELSE <<" ">> \o TakeWords(Tail(text), n - 1)

\* slug_to_title
slug_to_title(text, default) ==
    LET cleaned == Collapsed([i \in 1..Len(text) |->
                                 IF text[i] \in Punctuation THEN " " ELSE text[i]])
    IN  IF ~Truthy(cleaned) THEN default ELSE TakeWords(cleaned, TitleWords)

\* the arguments of the record-run call of one hook
record_run_args(hook, plan) ==
    [workspace |-> plan.workspace_path,
     project |-> plan.project_name,
     title |-> IF hook = "codex"
               THEN slug_to_title(<<"Codex", " ", "Turn", " ">> \o plan.turn_id
                                      \o <<" ">> \o plan.prompt,
                                  <<"Codex", " ", "Turn", " ", "Log">>)
               ELSE slug_to_title(plan.project_name \o <<" ", "Turn", " ">>
                                      \o plan.turn_id \o <<" ">> \o plan.prompt,
                                  <<"Agent", " ", "Turn", " ", "Log">>),
     prompt |-> IF hook = "codex" THEN plan.prompt
                ELSE truncate(OrElse(plan.prompt, NoPrompt), PromptCap),
     summary |-> IF hook = "codex" THEN plan.summary
                 ELSE truncate(OrElse(plan.summary, NoSummary), SummaryCap),
     decisions |-> NoArg,
     questions |-> NoArg]

NoRecord == [op |-> "none"]

\* what one run of a hook leaves in `last`: its exit status, the
\* obsidian_memory.py commands it invoked, and the outcome of record-run
HookOutcome(hook, raw, env, plan, calls, record) ==
    [op |-> "hook", hook |-> hook, raw |-> raw, env |-> env, stage |-> plan.stage,
     reason |-> plan.reason, exit |-> plan.exit, workspace |-> plan.workspace_path,
     calls |-> calls, record |-> record]

HookDone(outcome) ==
    /\ last' = outcome
    /\ UNCHANGED <<state_file, notes, clock, firstBind, lastBind, ensured, ensuredOk,
                   okRuns, runsBy, failures>>

\* one run of a hook: main, then show-vault and record-run
hook_step(hook, raw, env) ==
    \E plan \in {hook_main(hook, raw, env)} :
        IF plan.stage # "log_turn" THEN HookDone(HookOutcome(hook, raw, env, plan, <<>>, NoRecord))
        ELSE \E show \in {resolve_vault_or_exit(state_file, plan.workspace_path)} :
            IF show.error # "ok"
            THEN HookDone(HookOutcome(hook, raw, env, plan, <<"show-vault">>, NoRecord))
            ELSE LET args == record_run_args(hook, plan)
                     paths == build_note_paths(Strip(args.project))
                     ws_key == normalize_workspace(args.workspace)
                 IN  /\ LinesOf(notes[show.vault_path], paths.run_log) < MaxLines
                     /\ \E failAt \in FailPoints(record_run_body(Adapter(show, FALSE, 0),
                                                                 args, clock)) :
                        \E cli \in {record_run_body(Adapter(show, FALSE, failAt), args, clock)} :
                          /\ notes' = [notes EXCEPT ![show.vault_path] = cli.fs]
                          /\ last' = HookOutcome(hook, raw, env, plan,
                                                 <<"show-vault", "record-run">>,
                                                 Outcome("record-run", show, cli, args, FALSE))
                          /\ okRuns' = IF ~cli.raised
                                       THEN Bump(okRuns, <<show.vault_path, paths.project_slug>>)
                                       ELSE okRuns
                          /\ runsBy' = IF ~cli.raised
                                       THEN Bump(runsBy, <<ws_key, paths.project_slug>>)
                                       ELSE runsBy
                          /\ Failed(failAt)
                          /\ UNCHANGED <<state_file, clock, firstBind, lastBind, ensured,
                                         ensuredOk>>

(***************************************************************************)
(* The inputs of the hooks                                                 *)
(***************************************************************************)
NoEnv == EmptyDict

\* the fields that name the event, for all four schemas
RelevantEvent == ("type" :> JStr(AgentTurnComplete)) @@ ("hook_event_name" :> JStr(<<"Stop">>))
OtherEvent == ("type" :> JStr(<<"other">>)) @@ ("hook_event_name" :> JStr(<<"Other">>))
HookEvents == {RelevantEvent, OtherEvent, EmptyDict}

\* the cwd field: missing, a string, a number
HookCwds == {EmptyDict, "cwd" :> JStr(<<"/", "a", "/", "b">>), "cwd" :> JNum(7)}

\* the conversation: missing, or a prompt and an answer under the keys of
\* the schemas
HookTexts ==
    {EmptyDict,
     ("prompt" :> JStr(<<"x", " ", "x">>))
        @@ ("input-messages" :> JList(<<JStr(<<"x", " ", "x">>)>>))
        @@ ("last_assistant_message" :> JStr(<<"x", ".">>))
        @@ ("last-assistant-message" :> JStr(<<"x", ".">>))}

ObjectInput(payload) == [kind |-> "object", text |-> "r1", payload |-> payload]
OtherInput(kind) == [kind |-> kind, text |-> kind, payload |-> EmptyDict]

HookInputs ==
    {OtherInput(kind) : kind \in {"empty", "invalid", "array"}}
    \cup {ObjectInput(event @@ cwd @@ texts) :
            event \in HookEvents, cwd \in HookCwds, texts \in HookTexts \ {EmptyDict}}

\* the workspace of the hooks gets bound
HookSetVault == cmd_set_vault_step(<<"v1">>, <<"a">>)

HookEvent ==
    \E hook \in HookNames, raw \in HookInputs : hook_step(hook, raw, NoEnv)

NextHooks ==
    \/ HookSetVault
    \/ HookEvent

SpecHooks == Init /\ [][NextHooks]_vars

(***************************************************************************)
(* The Cursor hook with a webhook secret and signatures                    *)
(***************************************************************************)
\* the signatures a caller can send for the text "r1" when the secret is k1
Signatures ==
    {<<>>, HmacSha256(<<"k1">>, "r1"), <<"sha256=">> \o HmacSha256(<<"k1">>, "r1"),
     HmacSha256(<<"k1">>, "r2"), HmacSha256(<<"k2">>, "r1"), <<"<non-ascii>">>}

\* the signature variables of the environment
SignatureEnvs ==
    {"CURSOR_WEBHOOK_SIGNATURE" :> signature :
        signature \in {<<>>, HmacSha256(<<"k1">>, "r1"), HmacSha256(<<"k1">>, "r2")}}
    \cup {"CURSOR_SIGNATURE" :> (<<"sha256=">> \o HmacSha256(<<"k1">>, "r1"))}

CursorEnvs ==
    {IF secret = <<>> THEN signed ELSE ("CURSOR_WEBHOOK_SECRET" :> secret) @@ signed :
        secret \in {<<>>, <<" ">>, <<"k1">>}, signed \in SignatureEnvs}

CursorInputs ==
    {OtherInput("invalid")}
    \cup {ObjectInput(RelevantEvent @@ ("signature" :> JStr(signature))) :
            signature \in Signatures}

CursorEvent ==
    \E raw \in CursorInputs, env \in CursorEnvs : hook_step("cursor", raw, env)

NextCursor ==
    \/ HookSetVault
    \/ CursorEvent

SpecCursor == Init /\ [][NextCursor]_vars


(***************************************************************************)
(* Claims on the hooks                                                     *)
(***************************************************************************)
\* C14: every hook entry point finishes with exit status 0, whatever the
\* payload (invalid JSON, a root that is no object, fields of an
\* unexpected type such as a cwd that is no string, an irrelevant event,
\* an unbound workspace) and whatever record-run does
C14_HooksExitZero == last.op = "hook" => last.exit = 0

\* the number of times a command occurs among the calls of a hook
Invocations(calls, command) == Cardinality({i \in 1..Len(calls) : calls[i] = command})

SecretOf(outcome) == Strip(EnvGet(outcome.env, "CURSOR_WEBHOOK_SECRET"))

\* the signature a Cursor hook run was sent: in the environment, else in
\* the payload
SentTo(outcome) ==
    LET named == Strip(EnvGet(outcome.env, "CURSOR_WEBHOOK_SIGNATURE"))
        short == Strip(EnvGet(outcome.env, "CURSOR_SIGNATURE"))
        field == Get(outcome.raw.payload, "signature")
    IN  IF named # <<>> THEN named
        ELSE IF short # <<>> THEN short
        ELSE IF field.t = "str" THEN Strip(field.s) ELSE <<>>

\* C16: the Cursor hook accepts an event exactly when no secret is
\* configured, or the signature sent with it (in the environment or in the
\* payload, with or without the prefix "sha256=") is the HMAC-SHA256 of
\* the raw payload under the secret; a rejected event invokes no command
C16_SignatureAcceptedIff ==
    (last.op = "hook" /\ last.hook = "cursor" /\ last.raw.kind = "object") =>
        LET expected == HmacSha256(SecretOf(last), last.raw.text)
            accepted == last.reason \notin {"signature", "TypeError:compare_digest"}
        IN  /\ accepted <=> \/ SecretOf(last) = <<>>
                            \/ SentTo(last) = expected
                            \/ SentTo(last) = <<"sha256=">> \o expected
            /\ ~accepted => last.calls = <<>>

\* a secret is configured, the payload carries the prefixed digest, and
\* the hook has recorded the run
C16_Witness ==
    /\ last.op = "hook" /\ last.hook = "cursor"
    /\ SecretOf(last) = <<"k1">>
    /\ SentTo(last) = <<"sha256=">> \o HmacSha256(<<"k1">>, last.raw.text)
    /\ last.calls = <<"show-vault", "record-run">>
    /\ last.record.exit = 0


(***************************************************************************)
(* extract_prompt and extract_summary of the four hooks, applied to        *)
(* payloads that carry one text                                            *)
(***************************************************************************)
MaxText == 6
TextChars == {"x", " ", "."}
ExtractTexts == UNION {[1..n -> TextChars] : n \in 0..MaxText}

\* a payload with the text in the fields, in the messages, or in the
\* summary of a Cursor webhook, and a payload with no field of any schema
TextPayload(shape, text) ==
    CASE shape = "fields" ->
            ("prompt" :> JStr(text)) @@ ("input-messages" :> JList(<<JStr(text)>>))
            @@ ("last_assistant_message" :> JStr(text))
            @@ ("last-assistant-message" :> JStr(text))
      [] shape = "messages" ->
            ("messages" :> JList(<<JObj(("role" :> JStr(<<"user">>))
                                        @@ ("content" :> JStr(text))),
                                   JObj(("role" :> JStr(<<"assistant">>))
                                        @@ ("content" :> JList(<<JStr(text)>>)))>>))
            @@ ("input-messages" :> JList(<<JObj("content" :> JStr(text))>>))
            @@ ("last-assistant-message" :> JStr(text))
      [] shape = "status" ->
            ("summary" :> JStr(text)) @@ ("status" :> JStr(<<"x">>))
      [] OTHER -> "id" :> JNum(7)

ExtractShapes == {"fields", "messages", "status", "none"}

InitExtract ==
    /\ \E hook \in HookNames, shape \in ExtractShapes, text \in ExtractTexts :
          /\ shape = "none" => text = <<>>
          /\ last = [op |-> "payload", hook |-> hook, shape |-> shape, text |-> text]
    /\ state_file = NoFile
    /\ notes = [v \in Dirs |-> EmptyDict]
    /\ clock = 0
    /\ firstBind = EmptyStr
    /\ lastBind = EmptyDict
    /\ ensured = {}
    /\ ensuredOk = {}
    /\ okRuns = EmptyDict
    /\ runsBy = EmptyDict
    /\ failures = 0

Extract ==
    /\ last.op = "payload"
    /\ last' = [op |-> "extract", hook |-> last.hook, shape |-> last.shape,
                text |-> last.text,
                prompt |-> extract_prompt(last.hook, TextPayload(last.shape, last.text)),
                summary |-> extract_summary(last.hook, TextPayload(last.shape, last.text))]
    /\ UNCHANGED <<state_file, notes, clock, firstBind, lastBind, ensured, ensuredOk,
                   okRuns, runsBy, failures>>

NextExtract == Extract

SpecExtract == InitExtract /\ [][NextExtract]_vars

EndsWith(text, tail) ==
    Len(text) >= Len(tail) /\ SubSeq(text, Len(text) - Len(tail) + 1, Len(text)) = tail

\* the extraction ran on a payload whose prompt and summary are the text
Carried(outcome) ==
    outcome.op = "extract" /\ outcome.shape \in {"fields", "messages"}
    /\ Strip(outcome.text) # <<>>

\* C17: extract_prompt and extract_summary return the sentinels when the
\* payload has no matching field, never return more than the cap (3000 and
\* 500 characters), and the result ends with "..." exactly when the
\* whitespace-collapsed input was longer than the cap
C17_EllipsisExactlyWhenOverCap ==
    /\ last.op = "extract" =>
          /\ Len(last.prompt) <= PromptCap /\ Len(last.summary) <= SummaryCap
          /\ last.shape = "none" => last.prompt = NoPrompt /\ last.summary = NoSummary
    /\ Carried(last) =>
          /\ EndsWith(last.prompt, Ellipsis) <=> Len(Collapsed(last.text)) > PromptCap
          /\ EndsWith(last.summary, Ellipsis) <=> Len(Collapsed(last.text)) > SummaryCap

\* C17 (amended): the sentinels when no field matches; never more than
\* the cap; a whitespace-collapsed input longer than the cap is cut and
\* ends with "...", any other input is returned whitespace-collapsed and
\* otherwise unchanged (so it ends with "..." when the input did)
C17_CutExactlyWhenOverCap ==
    /\ last.op = "extract" =>
          /\ Len(last.prompt) <= PromptCap /\ Len(last.summary) <= SummaryCap
          /\ last.shape = "none" => last.prompt = NoPrompt /\ last.summary = NoSummary
    /\ Carried(last) =>
          /\ IF Len(Collapsed(last.text)) > PromptCap
             THEN EndsWith(last.prompt, Ellipsis)
             ELSE last.prompt = Collapsed(last.text)
          /\ IF Len(Collapsed(last.text)) > SummaryCap
             THEN EndsWith(last.summary, Ellipsis)
             ELSE last.summary = Collapsed(last.text)

\* a prompt over the cap came back cut to the cap, the marker included
C17_Witness ==
    /\ Carried(last)
    /\ Len(Collapsed(last.text)) > PromptCap
    /\ Len(last.prompt) = PromptCap
    /\ EndsWith(last.prompt, Ellipsis)


(***************************************************************************)
(* Claims on the adapter: dry-run, failures of the program                 *)
(***************************************************************************)
\* C18: with dry-run set, bootstrap, record-run and audit hand no command
\* to the obsidian program and leave every note of every vault as it was;
\* once the vault is resolved they finish with exit status 0
C18_DryRunChangesNothing ==
    [][(last'.op \in {"bootstrap", "record-run", "audit"} /\ last'.dry_run) =>
          /\ notes' = notes
          /\ last'.issued = <<>>
          /\ Truthy(last'.vault) => last'.exit = 0]_vars

\* a dry record-run into a bound, empty vault has finished and the vault
\* is still empty
C18_Witness ==
    /\ last.op = "record-run" /\ last.dry_run
    /\ Truthy(last.vault) /\ last.exit = 0
    /\ notes[last.vault] = EmptyDict


(***************************************************************************)
(* ObsidianCLI.run outside dry-run, on what subprocess.run returned        *)
(***************************************************************************)
MaxOutput == 5
OutputChars == {"E", "e", "r", "o"}

\* what the program printed
Outputs ==
    UNION {[1..n -> OutputChars] : n \in 0..MaxOutput}
    \cup {<<"F", "a", "i", "l">>, <<"C", "r", "e", "a", "t", "e", "d", ":">>}

\* the CompletedProcess of subprocess.run
Completed(returncode, stdout, stderr) ==
    [returncode |-> returncode, stdout |-> stdout, stderr |-> stderr]

\* the part of ObsidianCLI.run after subprocess.run: the RuntimeError with
\* the output in its message, or the stripped stdout
run_completed(completed) ==
    IF completed.returncode # 0
    THEN [raised |-> TRUE, carries |-> {completed.stdout, completed.stderr}, out |-> <<>>]
    ELSE [raised |-> FALSE, carries |-> {}, out |-> Strip(completed.stdout)]

InitProgram ==
    /\ \E returncode \in {0, 1}, stdout \in Outputs, stderr \in {<<>>, <<"e">>} :
          last = [op |-> "completed", completed |-> Completed(returncode, stdout, stderr)]
    /\ state_file = NoFile
    /\ notes = [v \in Dirs |-> EmptyDict]
    /\ clock = 0
    /\ firstBind = EmptyStr
    /\ lastBind = EmptyDict
    /\ ensured = {}
    /\ ensuredOk = {}
    /\ okRuns = EmptyDict
    /\ runsBy = EmptyDict
    /\ failures = 0

RunProgram ==
    /\ last.op = "completed"
    /\ last' = [op |-> "run", completed |-> last.completed,
                result |-> run_completed(last.completed)]
    /\ UNCHANGED <<state_file, notes, clock, firstBind, lastBind, ensured, ensuredOk,
                   okRuns, runsBy, failures>>

NextProgram == RunProgram

SpecProgram == InitProgram /\ [][NextProgram]_vars

\* sub in text
Contains(text, sub) ==
    \E i \in 1..(Len(text) - Len(sub) + 1) : SubSeq(text, i, i + Len(sub) - 1) = sub

\* the error pattern: "error" or "fail", in any case
MatchesErrorPattern(output) ==
    \/ Contains(Lower(output), <<"e", "r", "r", "o", "r">>)
    \/ Contains(Lower(output), <<"f", "a", "i", "l">>)

\* C19: a call of the adapter raises, with the captured stdout and stderr
\* in the error, when the exit status of the program is not 0 or its output
\* matches the error pattern, and succeeds otherwise
C19_ErrorOutputIsFailure ==
    last.op = "run" =>
        /\ last.result.raised <=>
              \/ last.completed.returncode # 0
              \/ MatchesErrorPattern(last.completed.stdout)
              \/ MatchesErrorPattern(last.completed.stderr)
        /\ last.result.raised =>
              last.result.carries = {last.completed.stdout, last.completed.stderr}


(***************************************************************************)
(* slugify applied to strings                                              *)
(***************************************************************************)
MaxSlugInput == 4
SlugInputChars == {"a", "B", "0", "-", "_", " "}
MixedChars ==
    <<" ", " ", "M", "i", "x", "e", "d", "_", "_", "C", "h", "a", "r", "s", "!", "!", " ">>

SlugInputs == UNION {[1..n -> SlugInputChars] : n \in 0..MaxSlugInput} \cup {MixedChars}

InitSlug ==
    /\ \E value \in SlugInputs : last = [op |-> "value", value |-> value]
    /\ state_file = NoFile
    /\ notes = [v \in Dirs |-> EmptyDict]
    /\ clock = 0
    /\ firstBind = EmptyStr
    /\ lastBind = EmptyDict
    /\ ensured = {}
    /\ ensuredOk = {}
    /\ okRuns = EmptyDict
    /\ runsBy = EmptyDict
    /\ failures = 0

Slugify ==
    /\ last.op = "value"
    /\ last' = [op |-> "slugify", value |-> last.value, slug |-> slugify(last.value),
                again |-> slugify(slugify(last.value))]
    /\ UNCHANGED <<state_file, notes, clock, firstBind, lastBind, ensured, ensuredOk,
                   okRuns, runsBy, failures>>

NextSlug == Slugify

SpecSlug == InitSlug /\ [][NextSlug]_vars

\* C20: slugify(slugify(x)) = slugify(x); a slug has only lowercase
\* letters, digits and hyphens, does not begin or end with a hyphen and
\* has no two hyphens in a row; "  Mixed__Chars!! " gives "mixed-chars"
C20_SlugifyIdempotent ==
    last.op = "slugify" =>
        /\ last.again = last.slug
        /\ \A i \in 1..Len(last.slug) : IsSlugChar(last.slug[i]) \/ last.slug[i] = "-"
        /\ last.slug # <<>> => last.slug[1] # "-" /\ last.slug[Len(last.slug)] # "-"
        /\ \A i \in 1..(Len(last.slug) - 1) :
              ~(last.slug[i] = "-" /\ last.slug[i + 1] = "-")
        /\ last.value = MixedChars =>
              last.slug = <<"m", "i", "x", "e", "d", "-", "c", "h", "a", "r", "s">>

\* the slug of "  Mixed__Chars!! " is computed and slugifies to itself
C20_Witness ==
    /\ last.op = "slugify" /\ last.value = MixedChars
    /\ last.slug = <<"m", "i", "x", "e", "d", "-", "c", "h", "a", "r", "s">>
    /\ last.again = last.slug


(***************************************************************************)
(* ConfigStore.save step by step: open("w") empties the file, json.dump    *)
(* and handle.write reach the file piece by piece, the with block closes   *)
(* it.  The process can be killed between any two steps, and another       *)
(* invocation can load the file at any time.  Here state_file also has     *)
(*   text  the tokens of the document that are in the file                 *)
(* and `last` holds the writer and what the other invocation loaded.       *)
(***************************************************************************)
\* the entries of a dict as json.dump writes them
RECURSIVE DumpEntries(_)
DumpEntries(d) ==
    IF DOMAIN d = {} THEN <<>>
    ELSE LET k == CHOOSE key \in DOMAIN d : TRUE
         IN  <<k, d[k]>> \o DumpEntries([key \in DOMAIN d \ {k} |-> d[key]])

\* json.dump(data, handle, indent=2, sort_keys=True); handle.write("\n")
Dump(data) ==
    <<"{", "default_vault_path", data["default_vault_path"], "workspace_vaults", "{">>
        \o DumpEntries(data["workspace_vaults"]) \o <<"}", "}", "\n">>

\* json.load of the file: the document, or the JSONDecodeError of a file
\* that does not hold a whole document
json_load(file) ==
    IF file.text = Dump(file.data) THEN [raised |-> FALSE, data |-> file.data]
    ELSE [raised |-> TRUE, data |-> EmptyDict]

Writer(stage, old, loaded) == [op |-> "save", stage |-> stage, old |-> old, loaded |-> loaded]

InitSave ==
    /\ state_file = [exists |-> FALSE, data |-> EmptyDict, text |-> <<>>]
    /\ last = Writer("idle", EmptyDict, "none")
    /\ notes = [v \in Dirs |-> EmptyDict]
    /\ clock = 0
    /\ firstBind = EmptyStr
    /\ lastBind = EmptyDict
    /\ ensured = {}
    /\ ensuredOk = {}
    /\ okRuns = EmptyDict
    /\ runsBy = EmptyDict
    /\ failures = 0

SaveFrame == UNCHANGED <<notes, clock, firstBind, lastBind, ensured, ensuredOk, okRuns,
                         runsBy, failures>>

\* set_vault up to self.state_file.open("w"): the file is empty from here
SaveOpen ==
    \E vault_path \in Dirs, workspace \in {NoneWs, <<"a">>, <<"b">>} :
        /\ last.stage # "writing"
        /\ IF state_file.exists THEN ~json_load(state_file).raised ELSE TRUE
        /\ state_file' = [exists |-> TRUE,
                          data |-> set_vault(state_file, vault_path, workspace),
                          text |-> <<>>]
        /\ last' = Writer("writing", load(state_file), last.loaded)
        /\ SaveFrame

\* the next piece of the document reaches the file
SaveWrite ==
    /\ last.stage = "writing"
    /\ Len(state_file.text) < Len(Dump(state_file.data))
    /\ state_file' = [state_file EXCEPT
                        !.text = SubSeq(Dump(state_file.data), 1, Len(@) + 1)]
    /\ UNCHANGED last
    /\ SaveFrame

\* the end of the with block
SaveClose ==
    /\ last.stage = "writing"
    /\ state_file.text = Dump(state_file.data)
    /\ last' = [last EXCEPT !.stage = "saved"]
    /\ UNCHANGED state_file
    /\ SaveFrame

\* the process is killed while it writes
SaveInterrupted ==
    /\ last.stage = "writing"
    /\ last' = [last EXCEPT !.stage = "interrupted"]
    /\ UNCHANGED state_file
    /\ SaveFrame

\* ConfigStore.load of another invocation
ConcurrentLoad ==
    /\ state_file.exists
    /\ last' = [last EXCEPT !.loaded = IF json_load(state_file).raised
                                       THEN "JSONDecodeError" ELSE "document"]
    /\ UNCHANGED state_file
    /\ SaveFrame

NextSave ==
    \/ SaveOpen
    \/ SaveWrite
    \/ SaveClose
    \/ SaveInterrupted
    \/ ConcurrentLoad

SpecSave == InitSave /\ [][NextSave]_vars

\* C21: at every point during and after a save, interrupted or not, the
\* state file holds the whole old document or the whole new document, and
\* a load by another invocation gets a document
C21_FileAlwaysWhole ==
    /\ state_file.exists =>
          \/ state_file.text = Dump(state_file.data)
          \/ state_file.text = Dump(last.old)
    /\ last.loaded # "JSONDecodeError"

(***************************************************************************)
(* Claims on audit                                                         *)
(***************************************************************************)
\* the checks the claim names, for the project of an audit
AuditSequence(project) ==
    <<[command |-> "unresolved", path |-> NoPath], [command |-> "orphans", path |-> NoPath],
      [command |-> "deadends", path |-> NoPath],
      [command |-> "backlinks", path |-> build_note_paths(Strip(project)).home]>>

\* C22: an audit hands the program unresolved, orphans, deadends and
\* backlinks of the project's Home note, in that order (all four when none
\* fails, the ones up to the failed one otherwise, none on a dry run or when
\* no vault is resolved), and leaves the notes of every vault and the state
\* file as they were.
C22_AuditOrderedAndReadOnly ==
    [][last'.op = "audit" =>
        /\ notes' = notes
        /\ state_file' = state_file
        /\ Len(last'.issued) <= 4
        /\ last'.issued = SubSeq(AuditSequence(last'.args.project), 1, Len(last'.issued))
        /\ (last'.exit = 0 /\ ~last'.dry_run) => Len(last'.issued) = 4
        /\ (last'.error = "RuntimeError") => Len(last'.issued) = last'.failAt
        /\ (last'.dry_run \/ last'.error \notin {"ok", "RuntimeError"}) => last'.issued = <<>>]_vars

\* an audit that ran its four checks in a vault that holds notes
C22_Witness ==
    /\ last.op = "audit"
    /\ last.exit = 0
    /\ ~last.dry_run
    /\ Len(last.issued) = 4
    /\ DOMAIN notes[last.vault] # {}
    /\ state_file.exists

(***************************************************************************)
(* Record-run on its own: one bound workspace, every combination of the    *)
(* optional decisions and questions arguments                              *)
(***************************************************************************)
RecordOptionalArgs ==
    {<<NoArg, NoArg>>, <<<<"x">>, NoArg>>, <<NoArg, <<"x">>>>, <<<<" ">>, EmptyStr>>}

RecordSetVault == cmd_set_vault_step(<<"v1">>, NoArg)

RecordRun ==
    \E title \in TitleArgs, optional \in RecordOptionalArgs, dry_run \in BOOLEAN :
        cmd_record_run_step(NoArg, <<"A", "b">>, title, optional[1], optional[2], dry_run)

NextRecord ==
    \/ RecordSetVault
    \/ RecordRun
    \/ Tick

SpecRecord == Init /\ [][NextRecord]_vars

\* where a command stands in the order of the claim: 1 a seed note is
\* created, 2 the run note is created, 3 an index append, 0 anything else
StepRank(cmd, project, run_note_path) ==
    IF cmd.command = "create" /\ cmd.path \in SeedPaths(project) THEN 1
    ELSE IF cmd.command = "create" /\ cmd.path = run_note_path THEN 2
    ELSE IF cmd.command = "append" THEN 3
    ELSE 0

\* how many of the commands append to the note at path
Appends(issued, path) ==
    Cardinality({i \in 1..Len(issued) :
                    issued[i].command = "append" /\ issued[i].path = path})

\* 1 for an optional argument that was given and is not empty, else 0
LineFor(a) == IF a # NoArg /\ a # EmptyStr THEN 1 ELSE 0

\* C23: in a record-run that reaches the vault (no dry run) the commands go
\* seed-note creations, then the creation of the run note, then the index
\* appends; at every append the five seed notes and the run note exist, so
\* the append targets an existing note and no append fails for a missing
\* one; a record-run that exits 0 appends exactly one line to the Run Log,
\* and one line to Decisions (Open Questions) exactly when the decisions
\* (questions) argument is not empty.
C23_RecordRunOrdered ==
    [][(last'.op = "record-run" /\ clock' = clock /\ ~last'.dry_run
            /\ last'.error \in {"ok", "RuntimeError"}) =>
        LET o == last'
            fs == notes[o.vault]
            fs2 == notes'[o.vault]
            paths == build_note_paths(Strip(o.args.project))
            rn == RunNotePathIn(o, clock)
            n == Len(o.issued)
        IN  /\ \A i \in 1..n : StepRank(o.issued[i], o.args.project, rn) >= 1
            /\ \A i \in 1..n : \A j \in i..n :
                    StepRank(o.issued[i], o.args.project, rn)
                        <= StepRank(o.issued[j], o.args.project, rn)
            /\ \A i \in 1..n : o.issued[i].command = "append" =>
                    /\ o.issued[i].path \in {paths.run_log, paths.decisions, paths.questions}
                    /\ SeedPaths(o.args.project) \cup {rn} \subseteq DOMAIN fs2
                    /\ \/ o.issued[i].path \in DOMAIN fs
                       \/ \E k \in 1..(i - 1) :
                            o.issued[k] = [command |-> "create", path |-> o.issued[i].path]
            /\ o.error = "RuntimeError" => n = o.failAt
            /\ Appends(o.issued, paths.run_log) <= 1
            /\ Appends(o.issued, paths.decisions) <= LineFor(o.args.decisions)
            /\ Appends(o.issued, paths.questions) <= LineFor(o.args.questions)
            /\ o.exit = 0 =>
                    /\ Appends(o.issued, paths.run_log) = 1
                    /\ Appends(o.issued, paths.decisions) = LineFor(o.args.decisions)
                    /\ Appends(o.issued, paths.questions) = LineFor(o.args.questions)
                    /\ LinesOf(fs2, paths.run_log) = LinesOf(fs, paths.run_log) + 1
                    /\ LinesOf(fs2, paths.decisions)
                            = LinesOf(fs, paths.decisions) + LineFor(o.args.decisions)
                    /\ LinesOf(fs2, paths.questions)
                            = LinesOf(fs, paths.questions) + LineFor(o.args.questions)]_vars

\* a record-run in an empty vault with decisions and without questions: five
\* seed notes and the run note created, then two appends
C23_Witness ==
    /\ last.op = "record-run"
    /\ last.exit = 0
    /\ ~last.dry_run
    /\ last.args.decisions = <<"x">>
    /\ last.args.questions = NoArg
    /\ Len(last.issued) = 8
    /\ LinesOf(notes[last.vault], RunLogIn(last)) = 1
    /\ LinesOf(notes[last.vault], build_note_paths(Strip(last.args.project)).decisions) = 1
    /\ LinesOf(notes[last.vault], build_note_paths(Strip(last.args.project)).questions) = 0

(***************************************************************************)
(* Claims on the events the hooks act on                                   *)
(***************************************************************************)
\* the kind of an event as each schema names it
EventKind(hook, payload) ==
    CASE hook = "codex" -> PyStr(PyOr(Get(payload, "type"), JStr(<<>>)))
      [] hook = "claude" ->
            Strip(PyStr(PyOr(Get(payload, "hook_event_name"),
                        PyOr(Get(payload, "type"),
                        PyOr(Get(payload, "event"), JStr(<<>>))))))
      [] hook = "cursor" ->
            Strip(PyStr(PyOr(Get(payload, "event"),
                        PyOr(Get(payload, "type"), JStr(<<>>)))))
      [] OTHER ->
            Lower(PyStr(PyOr(Get(_event_payload(payload), "type"),
                        PyOr(Get(payload, "type"),
                        PyOr(Get(_event_payload(payload), "event"), JStr(<<>>))))))

\* the relevance predicates of the four schemas: the sentinel, the
\* allow-list, a kind at all, one of the three tokens in the kind
IsRelevantEvent(hook, kind) ==
    CASE hook = "codex" -> kind = AgentTurnComplete
      [] hook = "claude" -> kind \in ClaudeEvents
      [] hook = "cursor" -> kind # EmptyStr
      [] OTHER -> Mentions(kind, {"turn", "message", "complete"})

\* a hook run that recorded nothing: record-run was not invoked and the
\* vaults and the state file are as they were
HookNoOp(outcome, notes2, state_file2) ==
    /\ Invocations(outcome.calls, "record-run") = 0
    /\ outcome.record = NoRecord
    /\ notes2 = notes
    /\ state_file2 = state_file

\* C24 as stated: in each of the four hooks an event whose kind does not
\* satisfy the relevance predicate of the hook is a no-op: record-run is not
\* invoked for it.
C24_IrrelevantEventIsNoOp ==
    [][(last'.op = "hook" /\ last'.raw.kind = "object"
            /\ ~IsRelevantEvent(last'.hook, EventKind(last'.hook, last'.raw.payload)))
        => HookNoOp(last', notes', state_file')]_vars

\* C24: in the Codex, Claude and Cursor hooks an event whose kind does not
\* satisfy the relevance predicate of the hook is a no-op, and so is in the
\* Antigravity hook an event that names a kind without 'turn', 'message'
\* or 'complete' in it; an Antigravity event that names no kind is acted on.
C24_NamedIrrelevantEventIsNoOp ==
    [][(last'.op = "hook" /\ last'.raw.kind = "object"
            /\ ~IsRelevantEvent(last'.hook, EventKind(last'.hook, last'.raw.payload))
            /\ (last'.hook = "antigravity"
                    => EventKind(last'.hook, last'.raw.payload) # EmptyStr))
        => HookNoOp(last', notes', state_file')]_vars

\* an event of another kind reached the Claude hook in a workspace whose
\* vault is bound, and the hook invoked nothing
C24_Witness ==
    /\ last.op = "hook"
    /\ last.hook = "claude"
    /\ last.raw.kind = "object"
    /\ EventKind("claude", last.raw.payload) = <<"Other">>
    /\ Get(last.raw.payload, "cwd") = JStr(<<"/", "a", "/", "b">>)
    /\ Truthy(resolve_vault(state_file, <<"a", "b">>))
    /\ last.calls = <<>>

(***************************************************************************)
(* extract_prompt over payloads that carry several sources at once: a      *)
(* prompt field, messages, a summary field                                 *)
(***************************************************************************)
\* the prompt field: missing, a text, blanks, a number
PromptFields ==
    {EmptyDict, "prompt" :> JStr(<<"p">>), "prompt" :> JStr(<<" ">>), "prompt" :> JNum(7)}

UserMessage(role, content) == JObj(("role" :> JStr(role)) @@ ("content" :> content))

\* the messages, under the keys of the four schemas: missing, one of the
\* user, one of the assistant only, blanks of the user and fragments of a
\* human
MessageFields ==
    {EmptyDict,
     ("messages" :> JList(<<UserMessage(<<"user">>, JStr(<<"m">>))>>))
        @@ ("input-messages" :> JList(<<JStr(<<"m">>)>>)),
     ("messages" :> JList(<<UserMessage(<<"assistant">>, JStr(<<"a">>))>>))
        @@ ("input-messages" :> JNum(7)),
     ("messages" :> JList(<<UserMessage(<<"user">>, JStr(<<" ">>)),
                            UserMessage(<<"Human">>, JList(<<JStr(<<"h">>)>>))>>))
        @@ ("input-messages" :> JList(<<JStr(<<" ">>), JStr(<<"h">>)>>))}

\* the summary field: missing, a text
SummaryFields == {EmptyDict, "summary" :> JStr(<<"s">>)}

PromptPayloads ==
    {prompt @@ messages @@ summary :
        prompt \in PromptFields, messages \in MessageFields, summary \in SummaryFields}

InitPrompt ==
    /\ \E hook \in HookNames, payload \in PromptPayloads :
          last = [op |-> "payload", hook |-> hook, payload |-> payload, prompt |-> <<>>]
    /\ state_file = NoFile
    /\ notes = [v \in Dirs |-> EmptyDict]
    /\ clock = 0
    /\ firstBind = EmptyStr
    /\ lastBind = EmptyDict
    /\ ensured = {}
    /\ ensuredOk = {}
    /\ okRuns = EmptyDict
    /\ runsBy = EmptyDict
    /\ failures = 0

ExtractPrompt ==
    /\ last.op = "payload"
    /\ last' = [last EXCEPT !.op = "extract_prompt",
                            !.prompt = extract_prompt(last.hook, last.payload)]
    /\ UNCHANGED <<state_file, notes, clock, firstBind, lastBind, ensured, ensuredOk,
                   okRuns, runsBy, failures>>

NextPrompt == ExtractPrompt

SpecPrompt == InitPrompt /\ [][NextPrompt]_vars

\* what the direct prompt field of a payload yields: for Claude the first of
\* its four fields that is a string with more than blanks, for Cursor and
\* Antigravity the prompt field when it is a string; Codex reads none
DirectSource(hook, payload) ==
    CASE hook = "claude" ->
            LET key == FirstText(payload, <<"prompt", "user_prompt", "message", "input">>)
            IN  IF key = "<none>" THEN EmptyStr ELSE payload[key].s
      [] hook \in {"cursor", "antigravity"} ->
            IF Get(payload, "prompt").t = "str" THEN payload["prompt"].s ELSE EmptyStr
      [] OTHER -> EmptyStr

\* what the messages of the user yield: their texts that are more than
\* blanks, joined by an empty line
MessageSource(hook, payload) ==
    CASE hook = "claude" ->
            Join(Paragraph, NonBlank(TextsByRole(
                MessagesUnder(payload, <<"messages", "input", "chat">>), UserRoles)))
      [] hook = "cursor" ->
            Join(Paragraph, NonBlank(TextsByRoleOrAuthor(
                MessagesUnder(payload, <<"messages", "chat_messages", "conversation",
                                         "transcript">>), UserRoles)))
      [] hook = "antigravity" ->
            Join(Paragraph, NonBlank(TextsByRoleOrAuthor(
                MessagesUnder(payload, <<"messages", "conversation", "transcript",
                                         "turn">>), UserRoles)))
      [] OTHER ->
            IF Get(payload, "input-messages").t = "list"
            THEN Join(Paragraph, NonBlank(CodexMessageTexts(payload["input-messages"].items)))
            ELSE EmptyStr

\* what the secondary field yields: the summary of a Cursor payload
FallbackSource(hook, payload) ==
    IF hook = "cursor" /\ Get(payload, "summary").t = "str"
    THEN payload["summary"].s ELSE EmptyStr

\* the first of the sources that yields something, capped; the sentinel
\* when none does
FirstYield(sources) ==
    LET yields == SelectSeq(sources, Truthy)
    IN  truncate(IF yields = <<>> THEN NoPrompt ELSE Head(yields), PromptCap)

\* C25 as stated: in every hook extract_prompt takes the direct prompt
\* field, then the messages of the user, then the secondary field, a later
\* one only when the earlier ones yield nothing.
C25_DirectFieldFirst ==
    last.op = "extract_prompt" =>
        last.prompt = FirstYield(<<DirectSource(last.hook, last.payload),
                                   MessageSource(last.hook, last.payload),
                                   FallbackSource(last.hook, last.payload)>>)

\* C25: extract_prompt takes the first of its sources that yields
\* something, in a fixed order per hook: Claude the direct fields and then
\* the messages of the user; Cursor the messages of the user, then the
\* prompt field, then the summary field; Antigravity the messages of the
\* user and then the prompt field; Codex its input messages only.
C25_FixedOrderPerHook ==
    last.op = "extract_prompt" =>
        last.prompt =
            FirstYield(IF last.hook = "claude"
                       THEN <<DirectSource(last.hook, last.payload),
                              MessageSource(last.hook, last.payload),
                              FallbackSource(last.hook, last.payload)>>
                       ELSE <<MessageSource(last.hook, last.payload),
                              DirectSource(last.hook, last.payload),
                              FallbackSource(last.hook, last.payload)>>)

\* a Cursor payload with a prompt field, a message of the user and a
\* summary: the message is the prompt
C25_Witness ==
    /\ last.op = "extract_prompt"
    /\ last.hook = "cursor"
    /\ DirectSource("cursor", last.payload) = <<"p">>
    /\ MessageSource("cursor", last.payload) = <<"m">>
    /\ FallbackSource("cursor", last.payload) = <<"s">>
    /\ last.prompt = <<"m">>

(***************************************************************************)
(* Claims on what writes the state file                                    *)
(***************************************************************************)
\* C26: set-vault with a vault path that does not exist or is no directory
\* exits with a non-zero status on the error of ensure_vault_ready and
\* leaves the state file as it was: no binding added or changed, no
\* default vault set.
C26_InvalidVaultPathChangesNothing ==
    [][(last'.op = "set-vault" /\ Resolve(last'.vault) \notin Dirs) =>
        /\ last'.exit # 0
        /\ last'.error \in {"InvalidVaultPath:missing", "InvalidVaultPath:not-a-directory"}
        /\ last'.error = "InvalidVaultPath:missing" <=> Resolve(last'.vault) \notin Files
        /\ state_file' = state_file
        /\ load(state_file')["workspace_vaults"] = load(state_file)["workspace_vaults"]
        /\ load(state_file')["default_vault_path"] = load(state_file)["default_vault_path"]]_vars

\* set-vault was given a file as the vault, after a vault had been bound
C26_Witness ==
    /\ last.op = "set-vault"
    /\ last.vault = <<"f">>
    /\ last.exit = 1
    /\ state_file.exists
    /\ load(state_file)["default_vault_path"] = <<"/", "v1">>

\* every command and every hook, in one workspace
AllHookInputs ==
    {OtherInput("invalid"),
     ObjectInput(RelevantEvent @@ ("cwd" :> JStr(<<"/", "a", "/", "b">>))),
     ObjectInput(RelevantEvent @@ ("cwd" :> JNum(7)))}

AllSetVault == \E vault_arg \in {<<"v1">>, <<"f">>} : cmd_set_vault_step(vault_arg, <<"a">>)
AllShowVault == cmd_show_vault_step(NoArg)
AllBootstrap == cmd_bootstrap_step(NoArg, <<"A", "b">>, FALSE)
AllRecordRun ==
    \E title \in TitleArgs : cmd_record_run_step(NoArg, <<"A", "b">>, title, NoArg, NoArg, FALSE)
AllSearch == cmd_search_step(NoArg, <<"A", "b">>, FALSE)
AllReadNote == cmd_read_note_step(NoArg, build_note_paths(<<"A", "b">>).run_log, FALSE)
AllAudit == cmd_audit_step(NoArg, <<"A", "b">>, FALSE)
AnyHook == \E hook \in HookNames, raw \in AllHookInputs : hook_step(hook, raw, NoEnv)

NextAll ==
    \/ AllSetVault
    \/ AllShowVault
    \/ AllBootstrap
    \/ AllRecordRun
    \/ AllSearch
    \/ AllReadNote
    \/ AllAudit
    \/ AnyHook

SpecAll == Init /\ [][NextAll]_vars

\* the bindings of the state document: the workspace -> vault map and the
\* default vault
Bindings(file) ==
    <<load(file)["workspace_vaults"], load(file)["default_vault_path"]>>

\* C27: only set-vault writes the persisted bindings: a step of show-vault,
\* bootstrap, record-run, search, read-note, audit or a hook, whether it
\* succeeds or fails, leaves the state file, and with it the
\* workspace -> vault map and the default vault, as they were; when they
\* change, the step is a set-vault that exited with 0.
C27_OnlySetVaultWritesBindings ==
    [][/\ (state_file' # state_file \/ Bindings(state_file') # Bindings(state_file))
            => (last'.op = "set-vault" /\ last'.exit = 0)
       /\ (last' # last /\ last'.op \in {"show-vault", "bootstrap", "record-run", "search",
                                          "read-note", "audit", "hook"})
            => (state_file' = state_file /\ Bindings(state_file') = Bindings(state_file))]_vars

\* a hook ran record-run, and it failed, in a workspace that resolves its
\* vault through a binding of an ancestor
C27_Witness ==
    /\ last.op = "hook"
    /\ last.calls = <<"show-vault", "record-run">>
    /\ last.record.exit = 1
    /\ StrOf(Cwd) \notin DOMAIN load(state_file)["workspace_vaults"]
    /\ DOMAIN load(state_file)["workspace_vaults"] # {}

====
